---- MODULE Spec2Model ----
(***************************************************************************)
(* A model of smartyparse (Muterra/py_smartyparse): the leaf parsers of    *)
(* parsers.py and the ParseHelper / SmartyParser / ListyParser engine of   *)
(* core.py.  Python objects live in a heap (id -> object); every method is *)
(* an operator from a world [heap, bufs] to a result that carries the new  *)
(* world, the raised exception (if any) and the returned value.            *)
(***************************************************************************)
EXTENDS Integers, Sequences, FiniteSets, TLC

\* schema: which schema the program built;  heap, bufs: its objects and the
\* bytearrays deferred calls still hold;  fresh: the heap of an identical
\* schema no pack or unpack has touched;  last: the last call, its argument
\* and what it returned or raised;  calls: pack and unpack calls made so far;
\* running: the calls threads are in the middle of, each with its locals.
VARIABLES schema, heap, bufs, fresh, last, calls, running
vars == <<schema, heap, bufs, fresh, last, calls, running>>

(***************************************************************************)
(* Python values.                                                          *)
(*   optional ints (lengths, slice stops): None is <<>>, n is <<n>>        *)
(*   objects handed to pack / returned by unpack are tagged records        *)
(***************************************************************************)
None == <<>>
Some(n) == <<n>>
Val(x) == x[1]
\* Python's  a or b  on optional ints: None and 0 are both falsy.
PyOr(a, b) == IF a = None \/ a = Some(0) THEN b ELSE a

VNone == [t |-> "none", v |-> 0]
VInt(n) == [t |-> "int", v |-> n]
VBytes(s) == [t |-> "bytes", v |-> s]
VRec(f) == [t |-> "rec", v |-> f]
VList(s) == [t |-> "list", v |-> s]

\* Exceptions: the class, and the raise site for ParseError.
NoErr == [cls |-> "", msg |-> ""]
ParseError(m) == [cls |-> "ParseError", msg |-> m]
TypeError == [cls |-> "TypeError", msg |-> ""]
KeyError == [cls |-> "KeyError", msg |-> ""]
ValueError == [cls |-> "ValueError", msg |-> ""]
AttributeError == [cls |-> "AttributeError", msg |-> ""]
IsParseError(e) == e.cls = "ParseError"

Min(a, b) == IF a < b THEN a ELSE b
Max(a, b) == IF a > b THEN a ELSE b
Zeros(n) == [i \in 1..n |-> 0]

\* Equality of Python values; records compare per key like dict == dict.
RECURSIVE PyEq(_, _)
PyEq(a, b) ==
    IF a.t # b.t THEN FALSE
    ELSE IF a.t = "rec"
         THEN /\ DOMAIN a.v = DOMAIN b.v
              /\ \A k \in DOMAIN a.v : PyEq(a.v[k], b.v[k])
    ELSE IF a.t = "list"
         THEN /\ Len(a.v) = Len(b.v)
              /\ \A i \in 1..Len(a.v) : PyEq(a.v[i], b.v[i])
    ELSE a.v = b.v

\* slice(start, stop) objects; stop is optional.
Slice(start, stop) == [start |-> start, stop |-> stop]
\* data[slice]: Python clamps both ends to the length.
GetSlice(data, sl) ==
    LET lo == Min(sl.start, Len(data))
        hi == IF sl.stop = None THEN Len(data) ELSE Min(Val(sl.stop), Len(data))
    IN  IF hi <= lo THEN <<>> ELSE SubSeq(data, lo + 1, hi)
\* bytearray[slice] = data: the range is replaced, the bytearray may resize.
SetSlice(buf, sl, data) ==
    LET lo == Min(sl.start, Len(buf))
        hi == IF sl.stop = None THEN Len(buf) ELSE Min(Val(sl.stop), Len(buf))
    IN  SubSeq(buf, 1, lo) \o data \o SubSeq(buf, Max(hi, lo) + 1, Len(buf))

(***************************************************************************)
(* parsers.py: the leaf parsers.  A parser is a record                     *)
(*   [k, length, signed, endian, content, verify]                          *)
(* and pack/unpack return [err, val].                                      *)
(***************************************************************************)
Ret(v) == [err |-> NoErr, val |-> v]
Raise(e) == [err |-> e, val |-> VNone]

_StructParserBase(size, signed, endian) ==
    [k |-> "Struct", length |-> Some(size), signed |-> signed,
     endian |-> endian, content |-> <<>>, verify |-> FALSE]
Int8(signed) == _StructParserBase(1, signed, "big")
Int16(signed) == _StructParserBase(2, signed, "big")
Int32(signed) == _StructParserBase(4, signed, "big")
Blob(length) ==
    [k |-> "Blob", length |-> length, signed |-> FALSE,
     endian |-> "", content |-> <<>>, verify |-> FALSE]
Padding(length) ==
    [k |-> "Padding", length |-> Some(length), signed |-> FALSE,
     endian |-> "", content |-> Zeros(length), verify |-> FALSE]
Literal(content, verify) ==
    [k |-> "Literal", length |-> Some(Len(content)), signed |-> FALSE,
     endian |-> "", content |-> content, verify |-> verify]
Null ==
    [k |-> "Null", length |-> Some(0), signed |-> FALSE,
     endian |-> "", content |-> <<>>, verify |-> FALSE]

Reverse(s) == [i \in 1..Len(s) |-> s[Len(s) + 1 - i]]
\* Half the range of a w-byte integer, 2^(8w-1), written without 2^(8w).
HalfRange(w) == 128 * (256 ^ (w - 1))
\* struct.Struct.pack of one integer: a non-integer or an out-of-range value
\* is struct.error.  (The model's integers stay below 2^31, so an unsigned
\* 32-bit field has no upper bound to exceed.)
StructInRange(p, n) ==
    LET w == Val(p.length)
    IN  IF p.signed
        THEN (w >= 4) \/ (n >= -HalfRange(w) /\ n < HalfRange(w))
        ELSE n >= 0 /\ ((w >= 4) \/ n < 2 * HalfRange(w))
\* struct.Struct.pack with the bytes in the other order.
StructBytes_swapped(p, n) ==
    LET w == Val(p.length)
        be == [i \in 1..w |-> (n \div (256 ^ (w - i))) % 256]
    IN  IF p.endian = "big" THEN Reverse(be) ELSE be
StructBytes(p, n) ==
    LET w == Val(p.length)
        be == [i \in 1..w |-> (n \div (256 ^ (w - i))) % 256]
    IN  IF p.endian = "big" THEN be ELSE Reverse(be)
RECURSIVE BigEndianValue(_, _)
BigEndianValue(bs, acc) ==
    IF bs = <<>> THEN acc ELSE BigEndianValue(Tail(bs), acc * 256 + Head(bs))
\* struct.Struct.unpack reading the bytes in the other order.
StructValue_swapped(p, data) ==
    LET be == IF p.endian = "big" THEN Reverse(data) ELSE data
    IN  IF p.signed /\ Head(be) >= 128
        THEN BigEndianValue(Tail(be), Head(be) - 256)
        ELSE BigEndianValue(be, 0)
StructValue(p, data) ==
    LET be == IF p.endian = "big" THEN data ELSE Reverse(data)
    IN  IF p.signed /\ Head(be) >= 128
        THEN BigEndianValue(Tail(be), Head(be) - 256)
        ELSE BigEndianValue(be, 0)

StructParser_unpack(p, data) ==
    IF Len(data) # Val(p.length) THEN Raise(ParseError("struct"))
    ELSE Ret(VInt(StructValue(p, data)))
StructParser_pack(p, obj) ==
    IF obj.t # "int" THEN Raise(ParseError("struct"))
    ELSE IF ~StructInRange(p, obj.v) THEN Raise(ParseError("struct"))
    ELSE Ret(VBytes(StructBytes(p, obj.v)))

Blob_unpack(p, data) ==
    IF p.length # None /\ Len(data) # Val(p.length)
    THEN Raise(ParseError("blob"))
    ELSE Ret(VBytes(data))
\* len(obj) is evaluated only for a fixed-length Blob; without a length the
\* object is returned as it is, whatever its type.
Blob_pack(p, obj) ==
    IF p.length # None /\ obj.t # "bytes" THEN Raise(TypeError)
    ELSE IF p.length # None /\ Len(obj.v) # Val(p.length)
    THEN Raise(ParseError("blob"))
    ELSE Ret(obj)

Padding_unpack(p, data) ==
    IF Len(data) # Val(p.length) THEN Raise(ParseError("padding"))
    ELSE Ret(VNone)
Padding_pack(p, obj) == Ret(VBytes(p.content))

Literal_unpack(p, data) ==
    IF p.verify
    THEN IF data # p.content THEN Raise(ParseError("literal"))
         ELSE Ret(VBytes(p.content))
    ELSE Ret(VNone)
Literal_pack(p, obj) ==
    IF p.verify /\ ~PyEq(obj, VBytes(p.content))
    THEN Raise(ParseError("literal"))
    ELSE Ret(VBytes(p.content))

Null_unpack(p, data) == Ret(VNone)
Null_pack(p, obj) == Ret(VBytes(<<>>))

\* parser.unpack(data) / parser.pack(obj) by the parser's class.
Parser_unpack(p, data) ==
    CASE p.k = "Struct" -> StructParser_unpack(p, data)
      [] p.k = "Blob" -> Blob_unpack(p, data)
      [] p.k = "Padding" -> Padding_unpack(p, data)
      [] p.k = "Literal" -> Literal_unpack(p, data)
      [] OTHER -> Null_unpack(p, data)
Parser_pack(p, obj) ==
    CASE p.k = "Struct" -> StructParser_pack(p, obj)
      [] p.k = "Blob" -> Blob_pack(p, obj)
      [] p.k = "Padding" -> Padding_pack(p, obj)
      [] p.k = "Literal" -> Literal_pack(p, obj)
      [] OTHER -> Null_pack(p, obj)

(***************************************************************************)
(* core.py: objects.  The heap is a sequence of objects, an object's id is *)
(* its index, id 0 is Python's None.  Every parsable carries               *)
(*   cls ("PH" | "SP" | "LP"), _length, _offset, _slice and four callbacks;*)
(* a ParseHelper adds  parser;  a SmartyParser adds  _control (the ordered *)
(* name -> id mapping), _exclude_from_obj and _defer_eval (0: length name  *)
(* -> data name, 1: name -> list of deferred calls);  a ListyParser adds   *)
(* parsers, terminant and require_term.                                    *)
(* bytearrays are objects too: bufs[b] is the content of bytearray b.      *)
(***************************************************************************)
\* A callback function: NOOP, a closure of link_length, or a closure of the
\* tests (decide).  self is the SmartyParser the closure refers to.
Func(name, self, arg) == [name |-> name, self |-> self, arg |-> arg]
NOOP == Func("NOOP", 0, "")
_SmartyparseCallback(func, modify) == [func |-> func, modify |-> modify]
\* _SmartyparseCallback.__bool__
Callback_bool(cb) == ~(cb.func = NOOP /\ ~cb.modify)
NoCallbacks ==
    [prepack |-> _SmartyparseCallback(NOOP, FALSE),
     postpack |-> _SmartyparseCallback(NOOP, FALSE),
     preunpack |-> _SmartyparseCallback(NOOP, FALSE),
     postunpack |-> _SmartyparseCallback(NOOP, FALSE)]

ParseHelper(parser, length) ==
    [cls |-> "PH", _length |-> length, _offset |-> 0, _slice |-> None,
     cb |-> NoCallbacks, parser |-> parser]
SmartyParser ==
    [cls |-> "SP", _length |-> None, _offset |-> 0, _slice |-> None,
     cb |-> NoCallbacks, _control |-> <<>>, _exclude_from_obj |-> {},
     _defer_eval0 |-> <<>>, _defer_eval1 |-> <<>>]
ListyParser(parsers, terminant, require_term) ==
    [cls |-> "LP", _length |-> None, _offset |-> 0, _slice |-> None,
     cb |-> NoCallbacks, parsers |-> parsers, terminant |-> terminant,
     require_term |-> require_term]

\* Python's  name = value : the value is computed once, and the function body
\* is what follows the assignment, with the name bound to that value.
With(f) == f[CHOOSE x \in DOMAIN f : TRUE]
\* Results of methods: the world after, the exception, the returned value.
Ok(w, v) == [w |-> w, err |-> NoErr, val |-> v]
Fail(w, e) == [w |-> w, err |-> e, val |-> VNone]

\* ParseHelper.length / _ParsableBase.length (the property getters).
length(o) == IF o.cls = "PH" THEN PyOr(o._length, o.parser.length) ELSE o._length
\* self.parser.length: SmartyParser and ListyParser are their own parsers.
parser_length(o) == IF o.cls = "PH" THEN o.parser.length ELSE o._length
\* An optional int as a Python value and back.
ToValue(x) == IF x = None THEN VNone ELSE VInt(Val(x))

\* Ordered mappings (OrderedDict, dict) as sequences of [name, val].
Has(m, name) == \E i \in 1..Len(m) : m[i].name = name
IndexOf(m, name) == CHOOSE i \in 1..Len(m) : m[i].name = name
Get(m, name) == m[IndexOf(m, name)].val
Put(m, name, val) ==
    IF Has(m, name) THEN [m EXCEPT ![IndexOf(m, name)].val = val]
    ELSE Append(m, [name |-> name, val |-> val])

\* _ParsableBase._infer_length
_infer_length(w, id, data_length) ==
    LET o == w.heap[id]
        self_expectation == length(o)
        parser_expectation == parser_length(o)
        data_expectation == data_length
        inferred == IF parser_expectation # None THEN parser_expectation
                    ELSE IF self_expectation # None THEN self_expectation
                    ELSE IF data_expectation # None THEN data_expectation
                    ELSE None
    IN  IF self_expectation # None /\ self_expectation # inferred
        THEN Fail(w, ParseError("infer_self"))
        ELSE IF data_expectation # None /\ data_expectation # inferred
        THEN Fail(w, ParseError("infer_data"))
        ELSE Ok([w EXCEPT !.heap[id]._length = inferred], VNone)

\* _build_slice with every slice starting at the head of the bytearray.
_build_slice_head(w, id, pack_into, open_ended) ==
    LET o == w.heap[id]
        len == length(o)
        stop == IF open_ended \/ len = None THEN None
                ELSE IF pack_into # None /\ Len(w.bufs[Val(pack_into)]) < Val(len)
                THEN None
                ELSE Some(Val(len))
    IN  [w EXCEPT !.heap[id]._slice = Slice(0, stop)]
\* _ParsableBase._build_slice; pack_into is None or Some(bytearray id).
_build_slice(w, id, pack_into, open_ended) ==
    LET o == w.heap[id]
        start == o._offset
        len == length(o)
        stop == IF open_ended \/ len = None THEN None
                ELSE IF pack_into # None
                        /\ Len(w.bufs[Val(pack_into)]) < Val(len) + start
                THEN None
                ELSE Some(start + Val(len))
    IN  [w EXCEPT !.heap[id]._slice = Slice(start, stop)]

\* _ParsableBase._pack_padding
_pack_padding(w, id, pack_into) ==
    With([w1 \in {_build_slice(w, id, Some(pack_into), FALSE)} |->
        LET o == w1.heap[id]
            n == PyOr(length(o), Some(0))
        IN  [w1 EXCEPT !.bufs[pack_into] = SetSlice(@, o._slice, Zeros(Val(n)))]])

\* SmartyParser.__setitem__; value is an object id (0 for None).
__setitem__(w, self, name, value) ==
    [w EXCEPT !.heap[self]._control = Put(@, name, value),
              !.heap[self]._defer_eval1 = Put(@, name, <<>>)]

\* The closures link_length registers, and the tests' decide.
postunpack_len(w, f, unpacked_length) ==
    LET data == Get(w.heap[f.self]._control, f.arg)
    IN  IF unpacked_length.t \notin {"int", "none"} THEN Fail(w, TypeError)
        ELSE Ok([w EXCEPT !.heap[data]._length =
                     IF unpacked_length.t = "int" THEN Some(unpacked_length.v)
                     ELSE None], VNone)
postunpack_dat(w, f, unpacked_data) == Ok(w, VNone)
\* prepack_dat that leaves the length of the data field as an earlier call
\* set it.
prepack_dat_kept(w, f, obj_dat) == Ok(w, VNone)
prepack_dat(w, f, obj_dat) ==
    LET data == Get(w.heap[f.self]._control, f.arg)
    IN  Ok([w EXCEPT !.heap[data]._length = None], VNone)
prepack_len(w, f, obj_len) ==
    LET data == Get(w.heap[f.self]._control, f.arg)
    IN  Ok(w, ToValue(length(w.heap[data])))
\* The ids some object of the heap refers to; the root (id 1) is always held
\* by the caller.
Refs(h) ==
    {1} \cup UNION {IF h[i].cls = "SP" THEN {h[i]._control[j].val : j \in 1..Len(h[i]._control)}
                    ELSE IF h[i].cls = "LP"
                    THEN {h[i].parsers[j] : j \in 1..Len(h[i].parsers)} \cup {h[i].terminant}
                    ELSE {} : i \in 1..Len(h)}
\* A new object: it takes the lowest id no object holds any more.
Alloc(w, o) ==
    LET free == (1..Len(w.heap)) \ Refs(w.heap)
    IN  IF free = {} THEN [w |-> [w EXCEPT !.heap = Append(@, o)], id |-> Len(w.heap) + 1]
        ELSE LET id == CHOOSE i \in free : \A j \in free : i <= j
             IN  [w |-> [w EXCEPT !.heap[id] = o], id |-> id]
\* decide choosing the integer parser whatever the switch.
decide_int8(w, f, switch) ==
    With([a \in {Alloc(w, ParseHelper(Int8(TRUE), None))} |->
        Ok(__setitem__(a.w, f.self, f.arg, a.id), VNone)])
\* trashtest.py's toggle: the switch value picks the parser of field 'light';
\* every call builds a new ParseHelper.
decide(w, f, switch) ==
    LET parser == IF PyEq(switch, VInt(1)) THEN Int8(TRUE) ELSE Blob(Some(11))
    IN  With([a \in {Alloc(w, ParseHelper(parser, None))} |->
            Ok(__setitem__(a.w, f.self, f.arg, a.id), VNone)])

\* Callbacks a user registers: each appends its argument to a list the
\* caller holds (w.seen);  inc returns v + 1,  rev returns the bytes reversed.
inc(w, f, v) ==
    With([w1 \in {[w EXCEPT !.seen = Append(@, <<"inc", v>>)]} |->
        IF v.t # "int" THEN Fail(w1, TypeError) ELSE Ok(w1, VInt(v.v + 1))])
rev(w, f, b) ==
    With([w1 \in {[w EXCEPT !.seen = Append(@, <<"rev", b>>)]} |->
        IF b.t # "bytes" THEN Fail(w1, TypeError) ELSE Ok(w1, VBytes(Reverse(b.v)))])
\* A callback for a Composite or a ListyParser: it returns another record, or
\* another list, than the one it is given.
subst(w, f, v) ==
    With([w1 \in {[w EXCEPT !.seen = Append(@, <<"subst", v>>)]} |->
        IF v.t = "rec" THEN Ok(w1, VRec([x |-> VInt(513)]))
        ELSE IF v.t = "list" THEN Ok(w1, VList(<<VInt(7)>>))
        ELSE Fail(w1, TypeError)])

Func_call(w, f, arg) ==
    CASE f.name = "postunpack_len" -> postunpack_len(w, f, arg)
      [] f.name = "postunpack_dat" -> postunpack_dat(w, f, arg)
      [] f.name = "prepack_dat" -> prepack_dat(w, f, arg)
      [] f.name = "prepack_len" -> prepack_len(w, f, arg)
      [] f.name = "decide" -> decide(w, f, arg)
      [] f.name = "inc" -> inc(w, f, arg)
      [] f.name = "rev" -> rev(w, f, arg)
      [] f.name = "subst" -> subst(w, f, arg)
      [] OTHER -> Ok(w, VNone)

\* _SmartyparseCallback.__call__
Callback_call(w, cb, arg) ==
    With([r \in {Func_call(w, cb.func, arg)} |->
        IF r.err # NoErr THEN r
        ELSE IF cb.modify THEN r
        ELSE Ok(r.w, arg)])

\* _ParsableBase.register_callback with the property setters it goes through:
\* the setter keeps the old modify, register_callback then assigns its own.
callback_setter(w, id, call_on, func) ==
    [w EXCEPT !.heap[id].cb[call_on] = _SmartyparseCallback(func, @.modify)]
register_callback(w, id, call_on, func, modify) ==
    LET w1 == callback_setter(w, id, call_on, func)
    IN  [w1 EXCEPT !.heap[id].cb[call_on].modify = modify]

\* ParseHelper.unpack
ParseHelper_unpack(w, id, unpack_from) ==
    With([r1 \in {_infer_length(w, id, None)} |->
        IF r1.err # NoErr THEN r1 ELSE
    With([w2 \in {_build_slice(r1.w, id, None, FALSE)} |->
    With([r3 \in {Callback_call(w2, w2.heap[id].cb.preunpack,
                                VBytes(GetSlice(unpack_from, w2.heap[id]._slice)))} |->
        IF r3.err # NoErr THEN r3
        ELSE IF r3.val.t # "bytes" THEN Fail(r3.w, TypeError) ELSE
    With([r4 \in {Parser_unpack(r3.w.heap[id].parser, r3.val.v)} |->
        IF r4.err # NoErr THEN Fail(r3.w, r4.err)
        ELSE Callback_call(r3.w, r3.w.heap[id].cb.postunpack, r4.val)])])])])

\* ParseHelper.pack; returns pack_into.
ParseHelper_pack(w, id, obj, pack_into) ==
    IF Len(w.bufs[pack_into]) < w.heap[id]._offset
    THEN Fail(w, ParseError("range")) ELSE
    With([w1 \in {_build_slice(w, id, Some(pack_into), FALSE)} |->
    With([r2 \in {Callback_call(w1, w1.heap[id].cb.prepack, obj)} |->
        IF r2.err # NoErr THEN r2 ELSE
    With([r3 \in {Parser_pack(r2.w.heap[id].parser, r2.val)} |->
        IF r3.err # NoErr THEN Fail(r2.w, r3.err) ELSE
    With([r4 \in {Callback_call(r2.w, r2.w.heap[id].cb.postpack, r3.val)} |->
        IF r4.err # NoErr THEN r4
        ELSE IF r4.val.t # "bytes" THEN Fail(r4.w, TypeError) ELSE
    With([r5 \in {_infer_length(r4.w, id, Some(Len(r4.val.v)))} |->
        IF r5.err # NoErr THEN r5
        ELSE Ok([r5.w EXCEPT !.bufs[pack_into] =
                    SetSlice(@, r5.w.heap[id]._slice, r4.val.v)], VNone)])])])])])

\* obj[name] and obj[name] = value on a Python value.
GetItem(obj, name) ==
    IF obj.t # "rec" THEN Raise(TypeError)
    ELSE IF name \notin DOMAIN obj.v THEN Raise(KeyError)
    ELSE Ret(obj.v[name])
SetItem(obj, name, value) == VRec((name :> value) @@ obj.v)
RECURSIVE SetAll(_, _, _)
SetAll(obj, names, value) ==
    IF names = {} THEN obj
    ELSE LET n == CHOOSE x \in names : TRUE
         IN  SetAll(SetItem(obj, n, value), names \ {n}, value)

\* bytearray(): a new, empty bytearray; its id is Len(bufs).
bytearray(w) == [w EXCEPT !.bufs = Append(@, <<>>)]

\* A deferred_call closure of _generate_deferred with what it captured.
Deferred(fieldname, offset, len, obj, pack_into) ==
    [fieldname |-> fieldname, offset |-> offset, length |-> len,
     obj |-> obj, pack_into |-> pack_into]

RECURSIVE Pack(_, _, _, _)
RECURSIVE Unpack(_, _, _)
RECURSIVE deferred_call(_, _, _)
RECURSIVE run_deferred(_, _, _, _)
RECURSIVE SmartyParser_pack_fields(_, _, _, _, _, _)
RECURSIVE SmartyParser_unpack_fields(_, _, _, _, _, _)

\* The sum SmartyParser._infer_length tries: None when a child is None
\* (AttributeError) or has no length (TypeError), both caught.
RECURSIVE static_length(_, _, _, _)
static_length(w, control, i, acc) ==
    IF i > Len(control) THEN Some(acc)
    ELSE IF control[i].val = 0 THEN None
    ELSE LET n == length(w.heap[control[i].val])
         IN  IF n = None THEN None
             ELSE static_length(w, control, i + 1, acc + Val(n))

\* SmartyParser._infer_length: the base method returns nothing, so the static
\* sum is always tried and always assigned.
SmartyParser_infer_length(w, id) ==
    With([r \in {_infer_length(w, id, None)} |->
        IF r.err # NoErr THEN r
        ELSE Ok([r.w EXCEPT !.heap[id]._length =
                    static_length(r.w, r.w.heap[id]._control, 1, 0)], VNone)])

\* parser._infer_length() by the object's class.
Infer(w, id) ==
    IF w.heap[id].cls = "SP" THEN SmartyParser_infer_length(w, id)
    ELSE _infer_length(w, id, None)

\* link_length without its housekeeping of _exclude_from_obj.
link_length_public(w, self, data_name, length_name) ==
    LET control == w.heap[self]._control
    IN  IF ~Has(control, data_name) \/ ~Has(control, length_name)
        THEN Fail(w, ValueError)
        ELSE IF IndexOf(control, data_name) < IndexOf(control, length_name)
        THEN Fail(w, ValueError) ELSE
    LET len == Get(control, length_name)
        dat == Get(control, data_name)
        w1 == register_callback(w, len, "postunpack",
                                Func("postunpack_len", self, data_name), FALSE)
        w2 == register_callback(w1, dat, "postunpack",
                                Func("postunpack_dat", self, data_name), FALSE)
        w3 == register_callback(w2, dat, "prepack",
                                Func("prepack_dat", self, data_name), FALSE)
        w4 == register_callback(w3, len, "prepack",
                                Func("prepack_len", self, data_name), TRUE)
    IN  Ok([w4 EXCEPT !.heap[self]._defer_eval0 = Put(@, length_name, data_name)],
           VNone)
\* link_length with its order check after the registrations.
link_length_late(w, self, data_name, length_name) ==
    LET control == w.heap[self]._control
    IN  IF ~Has(control, data_name) \/ ~Has(control, length_name)
        THEN Fail(w, ValueError) ELSE
    LET len == Get(control, length_name)
        dat == Get(control, data_name)
        w1 == register_callback(w, len, "postunpack",
                                Func("postunpack_len", self, data_name), FALSE)
        w2 == register_callback(w1, dat, "postunpack",
                                Func("postunpack_dat", self, data_name), FALSE)
        w3 == register_callback(w2, dat, "prepack",
                                Func("prepack_dat", self, data_name), FALSE)
        w4 == register_callback(w3, len, "prepack",
                                Func("prepack_len", self, data_name), TRUE)
    IN  IF IndexOf(control, data_name) < IndexOf(control, length_name)
        THEN Fail(w4, ValueError)
        ELSE Ok([w4 EXCEPT !.heap[self]._exclude_from_obj = @ \cup {length_name},
                           !.heap[self]._defer_eval0 = Put(@, length_name, data_name)],
                VNone)
\* SmartyParser.link_length
link_length(w, self, data_name, length_name) ==
    LET control == w.heap[self]._control
    IN  IF ~Has(control, data_name) \/ ~Has(control, length_name)
        THEN Fail(w, ValueError)
        ELSE IF IndexOf(control, data_name) < IndexOf(control, length_name)
        THEN Fail(w, ValueError) ELSE
    LET len == Get(control, length_name)
        dat == Get(control, data_name)
        w1 == register_callback(w, len, "postunpack",
                                Func("postunpack_len", self, data_name), FALSE)
        w2 == register_callback(w1, dat, "postunpack",
                                Func("postunpack_dat", self, data_name), FALSE)
        w3 == register_callback(w2, dat, "prepack",
                                Func("prepack_dat", self, data_name), FALSE)
        w4 == register_callback(w3, len, "prepack",
                                Func("prepack_len", self, data_name), TRUE)
    IN  Ok([w4 EXCEPT !.heap[self]._exclude_from_obj = @ \cup {length_name},
                      !.heap[self]._defer_eval0 = Put(@, length_name, data_name)],
           VNone)

\* SmartyParser._generate_deferred
_generate_deferred(w, self, fieldname, parser, obj, pack_into) ==
    LET waitfor == Get(w.heap[self]._defer_eval0, fieldname)
        d == Deferred(fieldname, w.heap[parser]._offset, length(w.heap[parser]),
                      obj, pack_into)
    IN  [w EXCEPT !.heap[self]._defer_eval1 = Put(@, waitfor, Append(Get(@, waitfor), d))]

\* deferred_call, the closure; c is [self, d].
deferred_call(w, self, d) ==
    LET f == Get(w.heap[self]._control, d.fieldname)
        length_buffer == length(w.heap[f])
        offset_buffer == w.heap[f]._offset
        o == GetItem(d.obj, d.fieldname)
    IN  With([w1 \in {[w EXCEPT !.heap[f]._length = d.length,
                                !.heap[f]._offset = d.offset]} |->
        IF o.err # NoErr THEN Fail(w1, o.err) ELSE
    With([r2 \in {Pack(w1, Get(w1.heap[self]._control, d.fieldname), o.val,
                       Some(d.pack_into))} |->
        IF r2.err # NoErr THEN r2 ELSE
    With([r3 \in {run_deferred(r2.w, self,
                               Get(r2.w.heap[self]._defer_eval1, d.fieldname), 1)} |->
        IF r3.err # NoErr THEN r3 ELSE
        LET g == Get(r3.w.heap[self]._control, d.fieldname)
        IN  Ok([r3.w EXCEPT !.heap[g]._length = length_buffer,
                            !.heap[g]._offset = offset_buffer], VNone)])])])

\* for deferred in <list>: deferred()
run_deferred(w, self, list, i) ==
    IF i > Len(list) THEN Ok(w, VNone) ELSE
    With([r \in {deferred_call(w, self, list[i])} |->
        IF r.err # NoErr THEN r
        ELSE run_deferred(r.w, self, list, i + 1)])

\* One pass of the field loop of SmartyParser.pack (lines 1177-1216), for
\* field i.  Returns [obj, seeker] in val.
SmartyParser_pack_field(w, self, obj, packed, seeker, i) ==
    LET fieldname == w.heap[self]._control[i].name
        parser == w.heap[self]._control[i].val
        this_obj == GetItem(obj, fieldname)
    IN  IF this_obj.err # NoErr THEN Fail(w, this_obj.err)
        ELSE IF parser = 0 THEN Fail(w, AttributeError) ELSE
    With([r2 \in {Infer([w EXCEPT !.heap[parser]._offset = seeker], parser)} |->
        IF r2.err # NoErr THEN r2 ELSE
        LET deferred == Has(r2.w.heap[self]._defer_eval0, fieldname)
            call_after_parse == IF deferred THEN <<>>
                                ELSE Get(r2.w.heap[self]._defer_eval1, fieldname)
        IN
    With([r3 \in {IF deferred
                  THEN Ok(_pack_padding(
                            _generate_deferred(r2.w, self, fieldname, parser, obj, packed),
                            parser, packed),
                          [obj |-> this_obj.val, into |-> packed])
                  ELSE Pack(r2.w, parser, this_obj.val, Some(packed))} |->
        IF r3.err # NoErr THEN r3 ELSE
        LET obj3 == SetItem(obj, fieldname, r3.val.obj)
            seeker3 == seeker + Val(PyOr(length(r3.w.heap[parser]), Some(0)))
        IN
    With([r4 \in {run_deferred(r3.w, self, call_after_parse, 1)} |->
        IF r4.err # NoErr THEN r4
        ELSE Ok([r4.w EXCEPT !.heap[parser]._offset = 0],
                [obj |-> obj3, seeker |-> seeker3])])])])
\* for fieldname in self._control, from field i on.
SmartyParser_pack_fields(w, self, obj, packed, seeker, i) ==
    IF i > Len(w.heap[self]._control)
    THEN Ok(w, [obj |-> obj, seeker |-> seeker]) ELSE
    With([r \in {SmartyParser_pack_field(w, self, obj, packed, seeker, i)} |->
        IF r.err # NoErr THEN r
        ELSE SmartyParser_pack_fields(r.w, self, r.val.obj, packed, r.val.seeker, i + 1)])

\* SmartyParser.pack up to its field loop (lines 1157-1174).  Returns
\* [obj, packed, caller]: the object the fields are taken from, the new
\* bytearray, and the caller's object if the fields work on another one.
SmartyParser_pack_begin(w, self, obj) ==
    LET exclude == w.heap[self]._exclude_from_obj
    IN  IF exclude # {} /\ obj.t # "rec" THEN Fail(w, TypeError) ELSE
    With([obj1 \in {SetAll(obj, exclude, VNone)} |->
    With([w1 \in {bytearray(w)} |->
    With([r2 \in {Callback_call(w1, w1.heap[self].cb.prepack, obj1)} |->
        IF r2.err # NoErr THEN r2
        ELSE Ok(r2.w, [obj |-> r2.val, packed |-> Len(w1.bufs),
                       caller |-> IF r2.w.heap[self].cb.prepack.modify
                                  THEN <<obj1>> ELSE <<>>])])])])
\* SmartyParser.pack after its field loop (lines 1218-1233); obj is the
\* caller's object as the call left it.
SmartyParser_pack_end(w, self, obj, packed, pack_into) ==
    With([r4 \in {Callback_call(w, w.heap[self].cb.postpack, VBytes(w.bufs[packed]))} |->
        IF r4.err # NoErr THEN r4
        ELSE IF r4.val.t # "bytes" THEN Fail(r4.w, TypeError) ELSE
    With([w5 \in {IF pack_into = None THEN bytearray(r4.w) ELSE r4.w} |->
        LET into == IF pack_into = None THEN Len(w5.bufs) ELSE Val(pack_into)
        IN
    With([w6 \in {_build_slice([w5 EXCEPT !.heap[self]._length = Some(Len(r4.val.v))],
                               self, Some(into), FALSE)} |->
        Ok([w6 EXCEPT !.bufs[into] = SetSlice(@, w6.heap[self]._slice, r4.val.v)],
           [obj |-> obj, into |-> into])])])])
\* SmartyParser.pack; pack_into is None or Some(bytearray id).  Returns
\* [obj, into]: the caller's object as the call left it, and the bytearray.
SmartyParser_pack(w, self, obj, pack_into) ==
    With([b \in {SmartyParser_pack_begin(w, self, obj)} |->
        IF b.err # NoErr THEN b ELSE
    With([r3 \in {SmartyParser_pack_fields(b.w, self, b.val.obj, b.val.packed, 0, 1)} |->
        IF r3.err # NoErr THEN r3
        ELSE SmartyParser_pack_end(
                 r3.w, self,
                 IF b.val.caller = <<>> THEN r3.val.obj ELSE b.val.caller[1],
                 b.val.packed, pack_into)])])

\* One pass of the field loop of SmartyParser.unpack (lines 1262-1305), for
\* field i.  Returns [unpacked, seeker] in val.
SmartyParser_unpack_field(w, self, data, unpacked, seeker, i) ==
    LET fieldname == w.heap[self]._control[i].name
        parser == w.heap[self]._control[i].val
    IN  IF parser = 0 THEN Fail(w, AttributeError) ELSE
    With([r2 \in {Infer([w EXCEPT !.heap[parser]._offset = seeker], parser)} |->
        IF r2.err # NoErr THEN r2 ELSE
    With([r3 \in {Unpack(r2.w, parser, data)} |->
        IF r3.err # NoErr THEN r3 ELSE
        LET unpacked3 == IF fieldname \notin r3.w.heap[self]._exclude_from_obj
                         THEN (fieldname :> r3.val) @@ unpacked
                         ELSE unpacked
            seeker_advance == length(r3.w.heap[parser])
        IN  IF seeker_advance = None THEN Fail(r3.w, TypeError) ELSE
        LET seeker4 == seeker + Val(seeker_advance)
        IN
    With([r5 \in {SmartyParser_infer_length(
                      [r3.w EXCEPT !.heap[parser]._offset = 0,
                                   !.heap[self]._length =
                                       Some(seeker4 - r3.w.heap[self]._offset)],
                      self)} |->
        IF r5.err # NoErr THEN r5
        ELSE Ok(r5.w, [unpacked |-> unpacked3, seeker |-> seeker4])])])])
\* for fieldname in self._control, from field i on.
SmartyParser_unpack_fields(w, self, data, unpacked, seeker, i) ==
    IF i > Len(w.heap[self]._control)
    THEN Ok(w, [unpacked |-> unpacked, seeker |-> seeker]) ELSE
    With([r \in {SmartyParser_unpack_field(w, self, data, unpacked, seeker, i)} |->
        IF r.err # NoErr THEN r
        ELSE SmartyParser_unpack_fields(r.w, self, data, r.val.unpacked,
                                        r.val.seeker, i + 1)])

\* SmartyParser.unpack up to its field loop (lines 1240-1259).
SmartyParser_unpack_begin(w, self, unpack_from) ==
    With([r1 \in {SmartyParser_infer_length([w EXCEPT !.heap[self]._length = None],
                                            self)} |->
        IF r1.err # NoErr THEN r1 ELSE
    With([w2 \in {_build_slice(r1.w, self, None, FALSE)} |->
        LET o == w2.heap[self]
        IN  IF length(o) = None /\ Callback_bool(o.cb.preunpack)
            THEN Fail(w2, ParseError("preunpack")) ELSE
    With([r3 \in {Callback_call(w2, o.cb.preunpack,
                                VBytes(GetSlice(unpack_from, o._slice)))} |->
        IF r3.err # NoErr THEN r3 ELSE Ok(r3.w, VNone)])])])
\* SmartyParser.unpack after its field loop (lines 1307-1312).
SmartyParser_unpack_end(w, self, unpacked) ==
    Callback_call(w, w.heap[self].cb.postunpack, VRec(unpacked))
\* SmartyParser.unpack
SmartyParser_unpack(w, self, unpack_from) ==
    With([b \in {SmartyParser_unpack_begin(w, self, unpack_from)} |->
        IF b.err # NoErr THEN b ELSE
    With([r4 \in {SmartyParser_unpack_fields(b.w, self, unpack_from, <<>>,
                                             b.w.heap[self]._offset, 1)} |->
        IF r4.err # NoErr THEN r4
        ELSE SmartyParser_unpack_end(r4.w, self, r4.val.unpacked)])])

RECURSIVE _attempt_pack_single_from(_, _, _, _, _, _)
RECURSIVE ListyParser_pack_items(_, _, _, _, _, _)
RECURSIVE _attempt_unpack_single_from(_, _, _, _, _, _)
RECURSIVE ListyParser_unpack_loop(_, _, _, _, _, _)

\* ListyParser._unpack_try_order with the terminant after the candidates.
_unpack_try_order_late(o) ==
    IF o.terminant # 0 THEN o.parsers \o <<o.terminant>> ELSE o.parsers
\* _unpack_try_order with the candidates in the opposite order.
_unpack_try_order_reversed(o) ==
    IF o.terminant # 0 THEN <<o.terminant>> \o Reverse(o.parsers) ELSE Reverse(o.parsers)
\* ListyParser._unpack_try_order
_unpack_try_order(o) ==
    IF o.terminant # 0 THEN <<o.terminant>> \o o.parsers ELSE o.parsers

\* ListyParser._attempt_pack_single: the for/else over self.parsers, from
\* candidate i on.  Returns [obj, advance] in val.
_attempt_pack_single_from(w, self, obj, pack_into, seeker, i) ==
    IF i > Len(w.heap[self].parsers) THEN Fail(w, ParseError("nomatch")) ELSE
    LET parser == w.heap[self].parsers[i]
    IN
    With([r2 \in {Infer([w EXCEPT !.heap[parser]._offset = seeker], parser)} |->
        IF r2.err # NoErr THEN r2 ELSE
    With([r3 \in {Pack(r2.w, parser, obj, Some(pack_into))} |->
        \* finally: parser.offset = 0
    With([w4 \in {[r3.w EXCEPT !.heap[parser]._offset = 0]} |->
        IF r3.err = NoErr
        THEN Ok(w4, [obj |-> r3.val.obj,
                     advance |-> Val(PyOr(length(r3.w.heap[parser]), Some(0)))])
        ELSE IF IsParseError(r3.err)
        THEN _attempt_pack_single_from(w4, self, obj, pack_into, seeker, i + 1)
        ELSE Fail(w4, r3.err)])])])
_attempt_pack_single(w, self, obj, pack_into, seeker) ==
    _attempt_pack_single_from(w, self, obj, pack_into, seeker, 1)

\* for this_obj in obj, from item i on.  Returns [obj, seeker] in val.
ListyParser_pack_items(w, self, obj, packed, seeker, i) ==
    IF i > Len(obj.v) THEN Ok(w, [obj |-> obj, seeker |-> seeker]) ELSE
    With([r \in {_attempt_pack_single(w, self, obj.v[i], packed, seeker)} |->
        IF r.err # NoErr THEN r
        ELSE ListyParser_pack_items(r.w, self, VList([obj.v EXCEPT ![i] = r.val.obj]),
                                    packed, seeker + r.val.advance, i + 1)])

\* ListyParser.pack.  The terminant is handed the packed bytearray itself as
\* the object to pack.
ListyParser_pack(w, self, obj, pack_into) ==
    With([w1 \in {bytearray(w)} |->
        LET packed == Len(w1.bufs) IN
    With([r2 \in {Callback_call(w1, w1.heap[self].cb.prepack, obj)} |->
        IF r2.err # NoErr THEN r2
        ELSE IF r2.val.t # "list" THEN Fail(r2.w, TypeError) ELSE
    With([r3 \in {ListyParser_pack_items(r2.w, self, r2.val, packed, 0, 1)} |->
        IF r3.err # NoErr THEN r3 ELSE
        LET terminant == r3.w.heap[self].terminant IN
    With([r4 \in {IF terminant = 0 THEN Ok(r3.w, VNone)
                  ELSE Pack([r3.w EXCEPT !.heap[terminant]._offset = r3.val.seeker],
                            terminant, VBytes(r3.w.bufs[packed]), Some(packed))} |->
        IF r4.err # NoErr THEN r4 ELSE
    With([w4 \in {IF terminant = 0 THEN r4.w
                  ELSE [r4.w EXCEPT !.heap[terminant]._offset = 0]} |->
    With([r5 \in {Callback_call(w4, w4.heap[self].cb.postpack,
                                VBytes(w4.bufs[packed]))} |->
        IF r5.err # NoErr THEN r5
        ELSE IF r5.val.t # "bytes" THEN Fail(r5.w, TypeError) ELSE
    With([w6 \in {IF pack_into = None THEN bytearray(r5.w) ELSE r5.w} |->
        LET into == IF pack_into = None THEN Len(w6.bufs) ELSE Val(pack_into)
            caller_obj == IF r2.w.heap[self].cb.prepack.modify THEN obj ELSE r3.val.obj
        IN
    With([w7 \in {_build_slice([w6 EXCEPT !.heap[self]._length = Some(Len(r5.val.v))],
                               self, Some(into), FALSE)} |->
        Ok([w7 EXCEPT !.bufs[into] = SetSlice(@, w7.heap[self]._slice, r5.val.v)],
           [obj |-> caller_obj, into |-> into])])])])])])])])])

\* ListyParser._attempt_unpack_single: the for/else over _unpack_try_order,
\* from candidate i on.  Returns [load_into, advance, terminant] in val.
_attempt_unpack_single_from(w, self, unpack_from, load_into, seeker, i) ==
    LET order == _unpack_try_order(w.heap[self])
    IN  IF i > Len(order) THEN Fail(w, ParseError("nomatch")) ELSE
    LET parser == order[i]
    IN
    With([r2 \in {Infer([w EXCEPT !.heap[parser]._offset = seeker], parser)} |->
        IF r2.err # NoErr THEN r2 ELSE
    With([r3 \in {Unpack(r2.w, parser, unpack_from)} |->
        \* finally: parser.offset = 0
    With([w4 \in {[r3.w EXCEPT !.heap[parser]._offset = 0]} |->
        IF r3.err = NoErr
        THEN Ok(w4, [load_into |-> Append(load_into, r3.val),
                     advance |-> Val(PyOr(length(r3.w.heap[parser]), Some(0))),
                     terminant |-> parser = w.heap[self].terminant])
        ELSE IF IsParseError(r3.err)
        THEN _attempt_unpack_single_from(w4, self, unpack_from, load_into, seeker, i + 1)
        ELSE Fail(w4, r3.err)])])])
_attempt_unpack_single(w, self, unpack_from, load_into, seeker) ==
    _attempt_unpack_single_from(w, self, unpack_from, load_into, seeker, 1)

\* ListyParser._verify_termination
_verify_termination(w, self) ==
    IF w.heap[self].terminant # 0 /\ w.heap[self].require_term
    THEN Fail(w, ParseError("eof"))
    ELSE Ok(w, VNone)

\* A while loop that cannot end: an iteration that commits a candidate without
\* moving the seeker and leaves every object as it found it repeats for ever.
Hang == [cls |-> "Hang", msg |-> ""]

\* while seeker < endpoint and not terminate (lines 835-837).
\* Returns [unpacked, terminate] in val.
ListyParser_unpack_loop(w, self, unpack_from, unpacked, seeker, endpoint) ==
    IF ~(seeker < endpoint) THEN Ok(w, [unpacked |-> unpacked, terminate |-> FALSE]) ELSE
    With([r \in {_attempt_unpack_single(w, self, unpack_from, unpacked, seeker)} |->
        IF r.err # NoErr THEN r
        ELSE IF r.val.terminant
        THEN Ok(r.w, [unpacked |-> r.val.load_into, terminate |-> TRUE])
        ELSE IF r.val.advance = 0 /\ r.w = w THEN Fail(r.w, Hang)
        ELSE ListyParser_unpack_loop(r.w, self, unpack_from, r.val.load_into,
                                     seeker + r.val.advance, endpoint)])

\* ListyParser.unpack
ListyParser_unpack(w, self, unpack_from) ==
    With([r1 \in {_infer_length(w, self, None)} |->
        IF r1.err # NoErr THEN r1 ELSE
    With([w2 \in {_build_slice(r1.w, self, None, FALSE)} |->
        LET o == w2.heap[self]
        IN  IF length(o) = None /\ Callback_bool(o.cb.preunpack)
            THEN Fail(w2, ParseError("preunpack")) ELSE
    With([r3 \in {Callback_call(w2, o.cb.preunpack,
                                VBytes(GetSlice(unpack_from, o._slice)))} |->
        IF r3.err # NoErr THEN r3 ELSE
        LET seeker == r3.w.heap[self]._offset
            endpoint == Val(PyOr(r3.w.heap[self]._slice.stop, Some(Len(unpack_from))))
        IN
    With([r4 \in {ListyParser_unpack_loop(r3.w, self, unpack_from, <<>>,
                                          seeker, endpoint)} |->
        IF r4.err # NoErr THEN r4 ELSE
        LET unpacked == IF r4.val.terminate
                        THEN SubSeq(r4.val.unpacked, 1, Len(r4.val.unpacked) - 1)
                        ELSE r4.val.unpacked
        IN
    With([r5 \in {IF r4.val.terminate THEN Ok(r4.w, VNone)
                  ELSE _verify_termination(r4.w, self)} |->
        IF r5.err # NoErr THEN r5
        ELSE Callback_call(r5.w, r5.w.heap[self].cb.postunpack,
                           VList(unpacked))])])])])])

\* parser.pack(obj, pack_into) by the object's class; None has no pack.
\* Returns [obj, into] in val.
Pack(w, id, obj, pack_into) ==
    IF id = 0 THEN Fail(w, AttributeError)
    ELSE IF w.heap[id].cls = "SP" THEN SmartyParser_pack(w, id, obj, pack_into)
    ELSE IF w.heap[id].cls = "LP" THEN ListyParser_pack(w, id, obj, pack_into)
    ELSE With([r \in {ParseHelper_pack(w, id, obj, Val(pack_into))} |->
             IF r.err # NoErr THEN r
             ELSE Ok(r.w, [obj |-> obj, into |-> Val(pack_into)])])

\* parser.unpack(unpack_from) by the object's class.
Unpack(w, id, unpack_from) ==
    IF id = 0 THEN Fail(w, AttributeError)
    ELSE IF w.heap[id].cls = "SP" THEN SmartyParser_unpack(w, id, unpack_from)
    ELSE IF w.heap[id].cls = "LP" THEN ListyParser_unpack(w, id, unpack_from)
    ELSE ParseHelper_unpack(w, id, unpack_from)

(***************************************************************************)
(* The schemas: the ones of the tests, built as the tests build them.  The *)
(* root SmartyParser or ListyParser is object 1.                           *)
(***************************************************************************)
Root == 1
Empty == [heap |-> <<>>, bufs |-> <<>>, seen |-> <<>>]
New(w, o) == [w EXCEPT !.heap = Append(@, o)]
\* parent[name] = <a new object o>
Field(w, name, o) == __setitem__(New(w, o), Root, name, Len(w.heap) + 1)

\* test_simple_reload.py: test_format, before its two link_length calls.
tf_1 ==
    LET w0 == New(Empty, SmartyParser)
        w1 == Field(w0, "magic", ParseHelper(Blob(Some(4)), None))
        w2 == Field(w1, "version", ParseHelper(Int32(FALSE), None))
        w3 == Field(w2, "cipher", ParseHelper(Int8(FALSE), None))
        w4 == Field(w3, "body1_length", ParseHelper(Int32(FALSE), None))
        w5 == Field(w4, "body1", ParseHelper(Blob(None), None))
        w6 == Field(w5, "body2_length", ParseHelper(Int32(FALSE), None))
    IN  Field(w6, "body2", ParseHelper(Blob(None), None))

\* trashtest.py: pastr with a Blob body, before link_length, and one more
\* field after the body.
pastr ==
    LET w0 == New(Empty, SmartyParser)
        w1 == Field(w0, "length", ParseHelper(Int8(FALSE), None))
        w2 == Field(w1, "body", ParseHelper(Blob(None), None))
    IN  Field(w2, "tail", ParseHelper(Int8(FALSE), None))

\* A chain of lengths, before its link_length calls: a is to hold the
\* length of b, b the length of c.
chain ==
    LET w0 == New(Empty, SmartyParser)
        w1 == Field(w0, "a", ParseHelper(Int8(FALSE), None))
        w2 == Field(w1, "b", ParseHelper(Int16(FALSE), None))
        w3 == Field(w2, "c", ParseHelper(Blob(None), None))
    IN  Field(w3, "tail", ParseHelper(Int8(FALSE), None))

\* A Composite whose last field is open-ended: no declared length, no length
\* of its codec, no length-link.
trail ==
    LET w0 == New(Empty, SmartyParser)
        w1 == Field(w0, "n", ParseHelper(Int8(FALSE), None))
    IN  Field(w1, "rest", ParseHelper(Blob(None), None))

\* A fixed-width schema: a verifying literal, integers, a fixed blob, padding.
fixed ==
    LET w0 == New(Empty, SmartyParser)
        w1 == Field(w0, "magic", ParseHelper(Literal(<<65, 66>>, TRUE), None))
        w2 == Field(w1, "n8", ParseHelper(Int8(TRUE), None))
        w3 == Field(w2, "u16", ParseHelper(Int16(FALSE), None))
        w4 == Field(w3, "blob", ParseHelper(Blob(Some(2)), None))
    IN  Field(w4, "pad", ParseHelper(Padding(2), None))

\* trashtest.py: tf_2, its Null, integer (up to 32 bits) and Padding fields.
tf_2 ==
    LET w0 == New(Empty, SmartyParser)
        w1 == Field(w0, "_0", ParseHelper(Null, None))
        w2 == Field(w1, "_1", ParseHelper(Int8(TRUE), None))
        w3 == Field(w2, "_2", ParseHelper(Int8(FALSE), None))
        w4 == Field(w3, "_3", ParseHelper(Int16(TRUE), None))
        w5 == Field(w4, "_4", ParseHelper(Int16(FALSE), None))
        w6 == Field(w5, "_5", ParseHelper(Int32(TRUE), None))
    IN  Field(w6, "_12", ParseHelper(Padding(4), None))

\* A length-prefixed SmartyParser (length, body; linked) as object self of w.
prefixed(w, self) ==
    LET w0 == New(w, SmartyParser)
        w1 == __setitem__(New(w0, ParseHelper(Int8(FALSE), None)), self, "length", self + 1)
        w2 == __setitem__(New(w1, ParseHelper(Blob(None), None)), self, "body", self + 2)
    IN  link_length(w2, self, "body", "length").w
\* trashtest.py's tf_nest2: a SmartyParser between two Fields, and tf_nest:
\* the same SmartyParser as first and as second field.
nest ==
    LET w0 == Field(New(Empty, SmartyParser), "_0", ParseHelper(Int8(FALSE), None))
        w1 == __setitem__(prefixed(w0, 3), Root, "_1", 3)
    IN  Field(w1, "_2", ParseHelper(Int8(FALSE), None))
twice ==
    LET w0 == prefixed(New(Empty, SmartyParser), 2)
    IN  __setitem__(__setitem__(w0, Root, "first", 2), Root, "second", 2)

\* trashtest.py: the toggle test's parent, as SmartyParser number self of w.
parent(w, self) ==
    LET w0 == New(w, SmartyParser)
        w1 == __setitem__(New(w0, ParseHelper(Int8(FALSE), None)), self, "switch", self + 1)
        w2 == __setitem__(w1, self, "light", 0)
        w3 == register_callback(w2, self + 1, "prepack", Func("decide", self, "light"), FALSE)
    IN  register_callback(w3, self + 1, "postunpack", Func("decide", self, "light"), FALSE)
toggle == parent(Empty, 1)

\* ListyParsers: over one or two integer candidates, with a verifying literal
\* as terminant, and (as trashtest.py's tf_list) over a variant SmartyParser.
U8 == ParseHelper(Int8(FALSE), None)
U16 == ParseHelper(Int16(FALSE), None)
listy_u8 == New(New(Empty, ListyParser(<<2>>, 0, TRUE)), U8)
listy_u8_u16 == New(New(New(Empty, ListyParser(<<2, 3>>, 0, TRUE)), U8), U16)
listy_u16_u8 == New(New(New(Empty, ListyParser(<<2, 3>>, 0, TRUE)), U16), U8)
\* A first candidate whose declared length is not its codec's.
listy_decl ==
    New(New(New(Empty, ListyParser(<<2, 3>>, 0, TRUE)),
            ParseHelper(Int8(FALSE), Some(2))), U16)
\* Candidates that take no byte: a Null first, and a Blob of no known length.
listy_null == New(New(New(Empty, ListyParser(<<2, 3>>, 0, TRUE)), ParseHelper(Null, None)), U8)
listy_open == New(New(Empty, ListyParser(<<2>>, 0, TRUE)), ParseHelper(Blob(None), None))
listy_term(require_term) ==
    New(New(New(Empty, ListyParser(<<2>>, 3, require_term)), U8),
        ParseHelper(Literal(<<255>>, TRUE), None))
tf_list == parent(New(Empty, ListyParser(<<2>>, 0, TRUE)), 2)

\* A Composite of one unsigned 16-bit Field, for callbacks on the Field.
cb == Field(New(Empty, SmartyParser), "x", ParseHelper(Int16(FALSE), None))

Build(s) ==
    CASE s = "tf_1" -> tf_1
      [] s = "pastr" -> pastr
      [] s = "chain" -> chain
      [] s = "trail" -> trail
      [] s = "nest" -> nest
      [] s = "twice" -> twice
      [] s = "fixed" -> fixed
      [] s = "tf_2" -> tf_2
      [] s = "toggle" -> toggle
      [] s = "cb" -> cb
      [] s = "listy_u8" -> listy_u8
      [] s = "listy_u8_u16" -> listy_u8_u16
      [] s = "listy_u16_u8" -> listy_u16_u8
      [] s = "listy_decl" -> listy_decl
      [] s = "listy_null" -> listy_null
      [] s = "listy_open" -> listy_open
      [] s = "listy_term" -> listy_term(TRUE)
      [] s = "listy_term_opt" -> listy_term(FALSE)
      [] OTHER -> tf_list

(***************************************************************************)
(* Calls.  A call of pack or unpack on the root, reduced to what the       *)
(* caller sees: the exception, or the bytes / the object returned.         *)
(***************************************************************************)
Call(w, op, arg) ==
    IF op = "pack"
    THEN With([r \in {Pack(w, Root, arg, None)} |->
             [w |-> r.w, err |-> r.err,
              out |-> IF r.err = NoErr THEN VBytes(r.w.bufs[r.val.into]) ELSE VNone]])
    ELSE With([r \in {Unpack(w, Root, arg.v)} |->
             [w |-> r.w, err |-> r.err, out |-> r.val]])

\* What Python frees when a call returns: objects nothing refers to, and
\* bytearrays no deferred call holds.
Freed == [cls |-> "free"]
ThunkBufs(h) ==
    UNION {IF h[i].cls = "SP"
           THEN UNION {{h[i]._defer_eval1[j].val[k].pack_into :
                            k \in 1..Len(h[i]._defer_eval1[j].val)} :
                       j \in 1..Len(h[i]._defer_eval1)}
           ELSE {} : i \in 1..Len(h)}
RECURSIVE Sweep(_, _, _)
Sweep(h, refs, i) ==
    IF i > Len(h) THEN <<>>
    ELSE <<IF i \in refs THEN h[i] ELSE Freed>> \o Sweep(h, refs, i + 1)
RECURSIVE SweepBufs(_, _, _, _)
SweepBufs(b, held, keep, i) ==
    IF i > keep THEN <<>>
    ELSE <<IF i \in held THEN b[i] ELSE <<>>>> \o SweepBufs(b, held, keep, i + 1)
Collect(w) ==
    With([held \in {ThunkBufs(w.heap)} |->
        LET keep == IF held = {} THEN 0 ELSE CHOOSE b \in held : \A c \in held : c <= b
        IN  [heap |-> Sweep(w.heap, Refs(w.heap), 1),
             bufs |-> SweepBufs(w.bufs, held, keep, 1)]])

(***************************************************************************)
(* The inputs the environment hands to pack, unpack and link_length.       *)
(***************************************************************************)
MaxCalls == 2
MaxBody == 2
MaxList == 2

Seqs(S, n) == UNION {[1..k -> S] : k \in 0..n}
Body(n) == [i \in 1..n |-> 96 + i]
Encoded(s, obj) == Call(Build(s), "pack", obj).out.v
Truncated(data) == SubSeq(data, 1, Len(data) - 1)

\* test_simple_reload.py's vectors, with the bodies of the documented example.
magic00 == <<91, 48, 48, 93>>
hello == <<104, 101, 108, 108, 111>>
world == <<119, 111, 114, 108, 100>>
tv(body1, body2) ==
    VRec([magic |-> VBytes(magic00), version |-> VInt(1), cipher |-> VInt(2),
          body1 |-> VBytes(body1), body2 |-> VBytes(body2)])
tv_bytes(body1, body2) ==
    magic00 \o <<0, 0, 0, 1, 2>> \o <<0, 0, 0, Len(body1)>> \o body1
            \o <<0, 0, 0, Len(body2)>> \o body2
pstr(n) == VRec([body |-> VBytes(Body(n)), tail |-> VInt(7)])
pstr_bytes(n) == <<n>> \o Body(n) \o <<7>>

fx(magic, n8, u16, blob) ==
    VRec([magic |-> VBytes(magic), n8 |-> VInt(n8), u16 |-> VInt(u16),
          blob |-> VBytes(blob), pad |-> VNone])
tv4(a, b, c) ==
    VRec(("_0" :> a) @@ ("_1" :> VInt(b)) @@ ("_2" :> VInt(11)) @@ ("_3" :> VInt(-300))
         @@ ("_4" :> VInt(301)) @@ ("_5" :> VInt(c)) @@ ("_12" :> VNone))
HelloWorld == <<72, 101, 108, 108, 111, 32, 119, 111, 114, 108, 100>>
sw(switch, light) == VRec([switch |-> VInt(switch), light |-> light])
cx(x) == VRec([x |-> x])
tr(n, rest) == VRec([n |-> VInt(n), rest |-> VBytes(rest)])
ch(n, tail) == VRec([c |-> VBytes(Body(n)), tail |-> VInt(tail)])
ch_bytes(a, n) == <<a, 0, n>> \o Body(n) \o <<7>>
pre(n) == VRec([body |-> VBytes(Body(n))])
ns(n) == VRec(("_0" :> VInt(1)) @@ ("_1" :> pre(n)) @@ ("_2" :> VInt(7)))
tw(n, m) == VRec([first |-> pre(n), second |-> pre(m)])

\* Records and lists inside the codecs' domains, and some outside.
Valid(s) ==
    CASE s = "tf_1" -> {tv(hello, world), tv(<<>>, world)}
      [] s = "pastr" -> {pstr(n) : n \in 0..MaxBody}
      [] s = "fixed" -> {fx(<<65, 66>>, a, b, <<1, 2>>) :
                            a \in {-128, -1, 127}, b \in {0, 513, 65535}}
      [] s = "tf_2" -> {tv4(VNone, b, c) : b \in {-10, 127}, c \in {-100000, 100001}}
      [] s = "cb" -> {cx(VInt(n)) : n \in {258, 65535}}
      [] s = "chain" -> {ch(n, 7) : n \in 0..MaxBody}
      [] s = "trail" -> {tr(n, Body(k)) : n \in {1, 255}, k \in 0..MaxBody}
      [] s = "nest" -> {ns(n) : n \in 0..MaxBody}
      [] s = "twice" -> {tw(n, m) : n \in 0..MaxBody, m \in 0..MaxBody}
      [] s = "toggle" -> {sw(1, VInt(n)) : n \in {-128, -55, -1, 0, 127}}
                             \cup {sw(d, VBytes(b)) : d \in {0, 2, 3, 255},
                                                      b \in {HelloWorld, Zeros(11)}}
      [] s = "listy_u8_u16" -> {VList(l) : l \in Seqs({VInt(1), VInt(300)}, MaxList)}
      [] s = "tf_list" -> {VList(l) : l \in Seqs({sw(1, VInt(-55)), sw(0, VBytes(HelloWorld))},
                                                 MaxList)}
      [] OTHER -> {VList(l) : l \in Seqs({VInt(1), VInt(2)}, MaxList)}
Invalid(s) ==
    CASE s = "tf_1" -> {SetItem(tv(hello, world), "body1_length", VInt(99)),
                        SetItem(SetItem(tv(hello, world), "body1_length", VInt(5)),
                                "body2_length", VInt(5))}
      [] s = "pastr" -> {SetItem(pstr(n), "length", VInt(9)) : n \in 0..MaxBody}
      [] s = "fixed" -> {fx(<<65, 67>>, 1, 1, <<1, 2>>), fx(<<65, 66>>, 128, 1, <<1, 2>>),
                         fx(<<65, 66>>, 1, -1, <<1, 2>>), fx(<<65, 66>>, 1, 65536, <<1, 2>>),
                         fx(<<65, 66>>, 1, 1, <<1>>)}
      [] s = "tf_2" -> {tv4(VInt(42), 1, 1), tv4(VNone, 128, 1)}
      [] s = "cb" -> {cx(VBytes(<<1, 2>>))}
      [] s = "chain" -> {ch(1, 256)}
      [] s = "trail" -> {tr(256, Body(1))}
      [] s = "toggle" -> {sw(1, VBytes(HelloWorld)), sw(0, VInt(5)), sw(1, VInt(128)),
                          sw(256, VInt(0)), sw(0, VBytes(<<1>>))}
      [] s = "listy_u8" -> {VList(<<VInt(1), VInt(300)>>), VList(<<VInt(300)>>)}
      [] OTHER -> {}
Objs(s) == Valid(s) \cup Invalid(s)

Encodings(s) == {Encoded(s, o) : o \in Valid(s)}
\* Byte strings: the encodings of the records above, cut short, or with
\* another first field.
Mangled(good) ==
    good \cup {Truncated(d) : d \in good \ {<<>>}}
         \cup {<<65, 67>> \o Tail(Tail(d)) : d \in {g \in good : Len(g) > 2}}
fixed_wires == Mangled(Encodings("fixed"))
tf_2_wires == Mangled(Encodings("tf_2"))
toggle_wires == Mangled(Encodings("toggle"))
tf_list_wires == Encodings("tf_list")
listy_u8_u16_wires == Encodings("listy_u8_u16")
Wires(s) ==
    CASE s = "tf_1" -> {tv_bytes(hello, world), tv_bytes(<<>>, world)}
      [] s = "pastr" -> {pstr_bytes(n) : n \in 0..MaxBody}
                            \cup {Truncated(pstr_bytes(n)) : n \in 0..MaxBody}
      [] s = "fixed" -> fixed_wires
      [] s = "tf_2" -> tf_2_wires
      [] s = "toggle" -> toggle_wires
      [] s = "cb" -> {<<1, 2>>, <<255, 255>>, <<1>>}
      [] s = "trail" -> {<<n>> \o Body(k) : n \in {1, 255}, k \in 0..MaxBody} \cup {<<>>}
      [] s = "nest" -> {<<1, n>> \o Body(n) \o <<7>> : n \in 0..MaxBody}
      [] s = "twice" -> {<<n>> \o Body(n) \o <<m>> \o Body(m) : n \in 0..MaxBody, m \in 0..MaxBody}
      [] s = "chain" -> {ch_bytes(2, n) : n \in 0..MaxBody}
                            \cup {Truncated(ch_bytes(2, MaxBody)), ch_bytes(1, 1)}
      [] s = "tf_list" -> tf_list_wires
      [] s = "listy_u8_u16" -> listy_u8_u16_wires
      [] s = "listy_u8" -> Seqs({1, 2}, MaxList)
      [] OTHER -> Seqs({1, 255}, MaxList)

\* link_length(data_name, length_name) calls, in and against the field order.
LinkPairs(s) ==
    IF s = "tf_1"
    THEN {<<"body1", "body1_length">>, <<"body2", "body2_length">>,
          <<"body1_length", "body1">>}
    ELSE IF s = "chain" THEN {<<"b", "a">>, <<"c", "b">>}
    ELSE {<<"body", "length">>, <<"length", "body">>}

(***************************************************************************)
(* The program: a schema is built, then linked, packed into and unpacked   *)
(* from, in any order.                                                     *)
(***************************************************************************)
World == [heap |-> heap, bufs |-> bufs, seen |-> <<>>]
Fresh == [heap |-> fresh, bufs |-> <<>>, seen |-> <<>>]

InitOf(schemas) ==
    /\ schema \in schemas
    /\ heap = Build(schema).heap
    /\ bufs = <<>>
    /\ fresh = Build(schema).heap
    /\ last = [op |-> "init", arg |-> VNone, err |-> NoErr, out |-> VNone]
    /\ calls = 0
    /\ running = <<>>

DoLink ==
    \E pair \in LinkPairs(schema) :
        \E r \in {link_length(World, Root, pair[1], pair[2])} :
            /\ heap' = r.w.heap
            /\ fresh' = link_length(Fresh, Root, pair[1], pair[2]).w.heap
            /\ last' = [op |-> "link", arg |-> VList(pair), err |-> r.err, out |-> VNone]
            /\ UNCHANGED <<schema, bufs, calls, running>>

DoPack ==
    /\ calls < MaxCalls
    /\ \E obj \in Objs(schema) :
        \E r \in {Call(World, "pack", obj)} :
            \E c \in {Collect(r.w)} :
                /\ heap' = c.heap
                /\ bufs' = c.bufs
                /\ last' = [op |-> "pack", arg |-> obj, err |-> r.err, out |-> r.out]
    /\ calls' = calls + 1
    /\ UNCHANGED <<schema, fresh, running>>

DoUnpack ==
    /\ calls < MaxCalls
    /\ \E data \in Wires(schema) :
        \E r \in {Call(World, "unpack", VBytes(data))} :
            \E c \in {Collect(r.w)} :
                /\ heap' = c.heap
                /\ bufs' = c.bufs
                /\ last' = [op |-> "unpack", arg |-> VBytes(data),
                            err |-> r.err, out |-> r.out]
    /\ calls' = calls + 1
    /\ UNCHANGED <<schema, fresh, running>>

\* field.register_callback(call_on, func[, modify]) and
\* field.callback_<call_on> = func  on the Field of schema cb, while the
\* schema is set up.  func is None or one of two user functions made for the
\* slot (two function objects with the same body);  modify is None when the
\* call does not pass it.
CbField == 2
Slots == {"prepack", "postpack", "preunpack", "postunpack"}
UserFunc(call_on) ==
    {Func(IF call_on \in {"prepack", "postunpack"} THEN "inc" ELSE "rev", 0, which) :
        which \in {"f", "g"}}
Registration(kind, call_on, func, modify) ==
    [t |-> kind, v |-> [call_on |-> call_on, func |-> func, modify |-> modify]]
DoRegister ==
    /\ calls = 0
    /\ \E call_on \in Slots, modify \in {None, Some(TRUE), Some(FALSE)} :
        \E func \in {NOOP} \cup UserFunc(call_on) :
            \* def register_callback(self, call_on, func, modify=False)
            \E m \in {IF modify = None THEN FALSE ELSE Val(modify)} :
                /\ heap' = register_callback(World, CbField, call_on, func, m).heap
                /\ fresh' = register_callback(Fresh, CbField, call_on, func, m).heap
                /\ last' = [op |-> "register",
                            arg |-> Registration("register_callback", call_on, func, modify),
                            err |-> NoErr, out |-> VNone]
    /\ UNCHANGED <<schema, bufs, calls, running>>
DoAssign ==
    /\ calls = 0
    /\ \E call_on \in Slots :
        \E func \in {NOOP} \cup UserFunc(call_on) :
            /\ heap' = callback_setter(World, CbField, call_on, func).heap
            /\ fresh' = callback_setter(Fresh, CbField, call_on, func).heap
            /\ last' = [op |-> "register",
                        arg |-> Registration("setter", call_on, func, None),
                        err |-> NoErr, out |-> VNone]
    /\ UNCHANGED <<schema, bufs, calls, running>>
\* parser.register_callback(call_on, func, modify) on the root Composite or
\* ListyParser, with a user function of the slot's type.
RootFunc(call_on) ==
    Func(IF call_on \in {"prepack", "postunpack"} THEN "subst" ELSE "rev", 0, "f")
DoRegisterRoot ==
    /\ calls = 0
    /\ \E call_on \in Slots, modify \in BOOLEAN :
        /\ heap' = register_callback(World, Root, call_on, RootFunc(call_on), modify).heap
        /\ fresh' = register_callback(Fresh, Root, call_on, RootFunc(call_on), modify).heap
        /\ last' = [op |-> "register",
                    arg |-> Registration("register_callback", call_on,
                                         RootFunc(call_on), Some(modify)),
                    err |-> NoErr, out |-> VNone]
    /\ UNCHANGED <<schema, bufs, calls, running>>

\* A Field on its own: ParseHelper(parser, length=declared), then
\* field.pack(obj, pack_into) into a bytearray of the caller, and
\* field.unpack(data).  After pack, out is what the bytearray holds.
FieldParsers == {Int8(FALSE), Int16(FALSE), Blob(None), Blob(Some(2))}
Declared == {None} \cup {Some(n) : n \in 0..MaxBody}
FieldObjs == {VInt(5)} \cup {VBytes(Body(n)) : n \in 0..(MaxBody + 1)}
Destinations == {<<>>, <<9, 9, 9>>}
DoFieldPack ==
    /\ calls < MaxCalls
    /\ \E obj \in FieldObjs, dest \in Destinations :
        \E r \in {ParseHelper_pack([World EXCEPT !.bufs = Append(@, dest)],
                                   Root, obj, Len(bufs) + 1)} :
            \E c \in {Collect(r.w)} :
                /\ heap' = c.heap
                /\ bufs' = c.bufs
                /\ last' = [op |-> "pack", arg |-> VList(<<obj, VBytes(dest)>>),
                            err |-> r.err, out |-> VBytes(r.w.bufs[Len(bufs) + 1])]
    /\ calls' = calls + 1
    /\ UNCHANGED <<schema, fresh, running>>
DoFieldUnpack ==
    /\ calls < MaxCalls
    /\ \E data \in {Body(n) : n \in 0..(MaxBody + 1)} :
        \E r \in {ParseHelper_unpack(World, Root, data)} :
            \E c \in {Collect(r.w)} :
                /\ heap' = c.heap
                /\ bufs' = c.bufs
                /\ last' = [op |-> "unpack", arg |-> VBytes(data),
                            err |-> r.err, out |-> r.val]
    /\ calls' = calls + 1
    /\ UNCHANGED <<schema, fresh, running>>

Next == DoPack \/ DoUnpack
NextLink == DoLink \/ DoPack \/ DoUnpack
NextCallback == DoRegister \/ DoAssign \/ DoPack \/ DoUnpack
\* Two threads, each making one pack or unpack call on the same length-linked
\* SmartyParser.  A thread takes one step at a time: the call up to its field
\* loop, one pass of the loop, or the call after the loop; its locals
\* (position in the loop, seeker, the object or the record built so far, its
\* bytearray) are its own, the SmartyParser and its Fields are shared.
Threads == {1, 2}
ThreadInputs ==
    {<<"pack", pstr(n)>> : n \in 1..MaxBody}
        \cup {<<"unpack", VBytes(pstr_bytes(n))>> : n \in 1..MaxBody}
NewCall(in) ==
    [op |-> in[1], arg |-> in[2], pc |-> 0, seeker |-> 0, acc |-> VNone, packed |-> 0,
     caller |-> <<>>, done |-> FALSE, err |-> NoErr, out |-> VNone, overlapped |-> FALSE]
Active(c) == c.pc > 0 /\ ~c.done
\* Thread t has moved its call to c and the shared objects to w.
Moved(t, c, w) ==
    /\ heap' = w.heap
    /\ bufs' = w.bufs
    /\ running' = [u \in Threads |->
                      IF u = t
                      THEN [c EXCEPT !.overlapped = @ \/ \E v \in Threads \ {t} :
                                                              Active(running[v])]
                      ELSE [running[u] EXCEPT !.overlapped = @ \/ Active(running[u])]]
    /\ IF c.done
       THEN /\ last' = [op |-> c.op, arg |-> c.arg, err |-> c.err, out |-> c.out]
            /\ calls' = calls + 1
       ELSE UNCHANGED <<last, calls>>
    /\ UNCHANGED <<schema, fresh>>
Raised(c, e) == [c EXCEPT !.done = TRUE, !.err = e]
ThreadBegin(t) ==
    LET c == running[t]
    IN  /\ c.pc = 0 /\ ~c.done
        /\ IF c.op = "pack"
           THEN \E r \in {SmartyParser_pack_begin(World, Root, c.arg)} :
                    Moved(t, IF r.err # NoErr THEN Raised(c, r.err)
                             ELSE [c EXCEPT !.pc = 1, !.acc = r.val.obj,
                                            !.packed = r.val.packed,
                                            !.caller = r.val.caller], r.w)
           ELSE \E r \in {SmartyParser_unpack_begin(World, Root, c.arg.v)} :
                    Moved(t, IF r.err # NoErr THEN Raised(c, r.err)
                             ELSE [c EXCEPT !.pc = 1, !.acc = <<>>,
                                            !.seeker = r.w.heap[Root]._offset], r.w)
ThreadField(t) ==
    LET c == running[t]
    IN  /\ c.pc \in 1..Len(heap[Root]._control) /\ ~c.done
        /\ IF c.op = "pack"
           THEN \E r \in {SmartyParser_pack_field(World, Root, c.acc, c.packed,
                                                  c.seeker, c.pc)} :
                    Moved(t, IF r.err # NoErr THEN Raised(c, r.err)
                             ELSE [c EXCEPT !.pc = @ + 1, !.acc = r.val.obj,
                                            !.seeker = r.val.seeker], r.w)
           ELSE \E r \in {SmartyParser_unpack_field(World, Root, c.arg.v, c.acc,
                                                    c.seeker, c.pc)} :
                    Moved(t, IF r.err # NoErr THEN Raised(c, r.err)
                             ELSE [c EXCEPT !.pc = @ + 1, !.acc = r.val.unpacked,
                                            !.seeker = r.val.seeker], r.w)
ThreadEnd(t) ==
    LET c == running[t]
    IN  /\ c.pc > Len(heap[Root]._control) /\ ~c.done
        /\ IF c.op = "pack"
           THEN \E r \in {SmartyParser_pack_end(
                              World, Root,
                              IF c.caller = <<>> THEN c.acc ELSE c.caller[1],
                              c.packed, None)} :
                    Moved(t, IF r.err # NoErr THEN Raised(c, r.err)
                             ELSE [c EXCEPT !.done = TRUE,
                                            !.out = VBytes(r.w.bufs[r.val.into])], r.w)
           ELSE \E r \in {SmartyParser_unpack_end(World, Root, c.acc)} :
                    Moved(t, IF r.err # NoErr THEN Raised(c, r.err)
                             ELSE [c EXCEPT !.done = TRUE, !.out = r.val], r.w)

NextField == DoFieldPack \/ DoFieldUnpack
NextThreads == \E t \in Threads : ThreadBegin(t) \/ ThreadField(t) \/ ThreadEnd(t)
NextRootCallback == DoRegisterRoot \/ DoPack \/ DoUnpack

InitLink == InitOf({"tf_1", "pastr"})
InitFixed == InitOf({"fixed", "tf_2"})
InitToggle == InitOf({"toggle"})
InitListy ==
    InitOf({"listy_u8", "listy_u8_u16", "listy_u16_u8", "listy_term", "listy_term_opt",
            "tf_list"})
InitCandidates ==
    InitOf({"listy_u8", "listy_u8_u16", "listy_u16_u8", "listy_term", "listy_decl"})
InitTrail == InitOf({"trail", "pastr"})
InitNest == InitOf({"nest", "twice", "pastr"})
InitAdvance == InitOf({"listy_u8", "listy_u8_u16", "listy_null", "listy_open"})
InitCallback == InitOf({"cb"})
InitThreads ==
    /\ schema = "pastr"
    /\ heap = link_length(Build("pastr"), Root, "body", "length").w.heap
    /\ bufs = <<>>
    /\ fresh = heap
    /\ last = [op |-> "init", arg |-> VNone, err |-> NoErr, out |-> VNone]
    /\ calls = 0
    /\ running \in {[t \in Threads |-> NewCall(IF t = 1 THEN a ELSE b)] :
                        a \in ThreadInputs, b \in ThreadInputs}
InitRootCallback == InitOf({"cb", "listy_u8"})
InitChain == InitOf({"chain"})
InitField ==
    /\ schema = "field"
    /\ \E parser \in FieldParsers, len \in Declared :
           heap = New(Empty, ParseHelper(parser, len)).heap
    /\ bufs = <<>>
    /\ fresh = heap
    /\ last = [op |-> "init", arg |-> VNone, err |-> NoErr, out |-> VNone]
    /\ calls = 0
    /\ running = <<>>

SpecLink == InitLink /\ [][NextLink]_vars
SpecFixed == InitFixed /\ [][Next]_vars
SpecToggle == InitToggle /\ [][Next]_vars
SpecListy == InitListy /\ [][Next]_vars
SpecCandidates == InitCandidates /\ [][Next]_vars
SpecTrail == InitTrail /\ [][Next]_vars
SpecCallback == InitCallback /\ [][NextCallback]_vars
SpecNest == InitNest /\ [][Next]_vars
SpecThreads == InitThreads /\ [][NextThreads]_vars
\* A call that hangs does not return: nothing follows it.
NextAdvance == last.err # Hang /\ Next
SpecAdvance == InitAdvance /\ [][NextAdvance]_vars
SpecRootCallback == InitRootCallback /\ [][NextRootCallback]_vars
SpecChain == InitChain /\ [][NextLink]_vars
SpecField == InitField /\ [][NextField]_vars

(***************************************************************************)
(* The properties of the specification, claim by claim.                    *)
(***************************************************************************)
Names(m) == {m[i].name : i \in 1..Len(m)}
Range(s) == {s[i] : i \in 1..Len(s)}
\* The length fields that take part in a length-link of the schema.
LinkedLengths == Names(fresh[Root]._defer_eval0)
Strip(obj, names) == VRec([k \in (DOMAIN obj.v) \ names |-> obj.v[k]])

C1Record == tv(hello, world)
C1Bytes ==
    <<91, 48, 48, 93, 0, 0, 0, 1, 2, 0, 0, 0, 5, 104, 101, 108, 108, 111,
      0, 0, 0, 5, 119, 111, 114, 108, 100>>
BothLinked == schema = "tf_1" /\ LinkedLengths = {"body1_length", "body2_length"}
\* C1: on the freshly built test_format schema with body1 and body2 linked to
\* their length fields, pack of the example record returns exactly the 27
\* documented bytes, and unpack of those bytes (on a fresh schema, and on the
\* one that just packed them) returns the example record.
C1_Example ==
    (BothLinked /\ calls = 1) =>
        /\ (last.op = "pack" /\ last.arg = C1Record) =>
              /\ last.err = NoErr
              /\ last.out = VBytes(C1Bytes)
              /\ Len(last.out.v) = 27
              /\ Call(World, "unpack", last.out).err = NoErr
              /\ Call(World, "unpack", last.out).out = C1Record
        /\ (last.op = "unpack" /\ last.arg = VBytes(C1Bytes)) =>
              /\ last.err = NoErr
              /\ last.out = C1Record
C1_Packed ==
    /\ BothLinked /\ calls = 1
    /\ last.op = "pack" /\ last.arg = C1Record /\ last.out = VBytes(C1Bytes)

\* The domain of a leaf codec: the values it encodes and decodes back.
IntDomain(p, n) ==
    LET bits == 8 * Val(p.length)
    IN  IF p.signed
        THEN bits < 32 => (-(2 ^ (bits - 1)) <= n /\ n < 2 ^ (bits - 1))
        ELSE 0 <= n /\ (bits < 32 => n < 2 * (2 ^ (bits - 1)))
InDomain(p, v) ==
    CASE p.k = "Struct" -> v.t = "int" /\ IntDomain(p, v.v)
      [] p.k = "Blob" -> v.t = "bytes" /\ Len(v.v) = Val(p.length)
      [] p.k = "Literal" /\ p.verify -> v = VBytes(p.content)
      [] OTHER -> v = VNone
AllFixed(h) ==
    \A i \in 1..Len(h[Root]._control) :
        LET f == h[h[Root]._control[i].val]
        IN  f.cls = "PH" /\ f._length = None /\ f.parser.length # None
RecordInDomain(h, r) ==
    /\ r.t = "rec"
    /\ DOMAIN r.v = Names(h[Root]._control)
    /\ \A i \in 1..Len(h[Root]._control) :
           InDomain(h[h[Root]._control[i].val].parser, r.v[h[Root]._control[i].name])
RECURSIVE SumOfLengths(_, _)
SumOfLengths(h, i) ==
    IF i > Len(h[Root]._control) THEN 0
    ELSE Val(h[h[Root]._control[i].val].parser.length) + SumOfLengths(h, i + 1)
\* C2: on a Composite whose fields all have a fixed codec length, pack of a
\* record whose values are in the codecs' domains succeeds, its output is as
\* long as the sum of the field lengths, and unpack of the output (on a fresh
\* schema and on the same instance) returns a record equal to the input.
C2_FixedRoundTrip ==
    (last.op = "pack" /\ AllFixed(fresh) /\ RecordInDomain(fresh, last.arg)) =>
        /\ last.err = NoErr
        /\ Len(last.out.v) = SumOfLengths(fresh, 1)
        /\ Call(Fresh, "unpack", last.out).err = NoErr
        /\ Call(Fresh, "unpack", last.out).out = last.arg
        /\ Call(World, "unpack", last.out).err = NoErr
        /\ Call(World, "unpack", last.out).out = last.arg
C2_PackedNegative ==
    /\ schema = "fixed" /\ last.op = "pack"
    /\ RecordInDomain(fresh, last.arg) /\ last.arg.v.n8.v < 0 /\ last.arg.v.u16.v > 255
    /\ last.err = NoErr /\ Len(last.out.v) = 9

\* C3: on pack with link_length(body, length), for every body of n >= 0 bytes,
\* the length field's bytes hold n and the n body bytes follow them at once.
C3_LengthWritten ==
    /\ \A n \in 0..MaxBody :
          (schema = "pastr" /\ LinkedLengths = {"length"}
             /\ last.op = "pack" /\ last.arg = pstr(n)) =>
              /\ last.err = NoErr
              /\ last.out = VBytes(<<n>> \o Body(n) \o <<7>>)
    /\ \A b \in {<<>>, hello} :
          (BothLinked /\ last.op = "pack" /\ last.arg = tv(b, world)) =>
              /\ last.err = NoErr
              /\ last.out = VBytes(tv_bytes(b, world))

\* C4: on unpack with link_length(body, length), for every length value
\* n >= 0 the body is the n bytes after the length field and the next field
\* is decoded right after them, so the record that was packed comes back.
C4_LengthRead ==
    /\ \A n \in 0..MaxBody :
          (schema = "pastr" /\ LinkedLengths = {"length"}
             /\ last.op = "unpack" /\ last.arg = VBytes(<<n>> \o Body(n) \o <<7>>)) =>
              /\ last.err = NoErr
              /\ last.out = pstr(n)
    /\ \A b \in {<<>>, hello} :
          (BothLinked /\ last.op = "unpack" /\ last.arg = VBytes(tv_bytes(b, world))) =>
              /\ last.err = NoErr
              /\ last.out = tv(b, world)

\* C5: a linked length field is not part of the public record: the record
\* unpack returns has no entry for it, and a pack call given a record that
\* holds a value for it returns what the same call returns, from the same
\* state, for the record without that entry.
C5_Excluded ==
    /\ [](LinkedLengths # {} /\ last.op = "unpack" /\ last.err = NoErr
            => (DOMAIN last.out.v) \cap LinkedLengths = {})
    /\ [][(last'.op = "pack" /\ calls' = calls + 1 /\ LinkedLengths # {}) =>
            LET r == Call(World, "pack", Strip(last'.arg, LinkedLengths))
            IN  last'.err = r.err /\ last'.out = r.out]_vars
C5_PackedWithLength ==
    /\ schema = "pastr" /\ LinkedLengths = {"length"}
    /\ last.op = "pack" /\ last.arg = SetItem(pstr(1), "length", VInt(9))
    /\ last.err = NoErr /\ last.out = VBytes(<<1, 97, 7>>)

\* C6: link_length(data, length) with the length field declared after the
\* data field raises ValueError at the call and changes nothing: no callback,
\* no exclusion, no registry entry.
Position(name) == IndexOf(fresh[Root]._control, name)
C6_WrongOrderRejected ==
    [][\A pair \in LinkPairs(schema) :
          (last'.op = "link" /\ last'.arg = VList(pair)
             /\ Position(pair[1]) < Position(pair[2])) =>
              /\ last'.err = ValueError
              /\ heap' = heap
              /\ fresh' = fresh]_vars
C6_Rejected ==
    /\ schema = "pastr" /\ calls = 0
    /\ last.op = "link" /\ last.arg = VList(<<"length", "body">>)
    /\ last.err = ValueError /\ heap = pastr.heap

\* The records of the toggle schema: a switch byte, and a light in the domain
\* of the codec the switch selects; and their encodings, byte by byte.
ToggleDomain(r) ==
    /\ r.t = "rec" /\ DOMAIN r.v = {"switch", "light"}
    /\ r.v.switch.t = "int" /\ r.v.switch.v \in 0..255
    /\ IF r.v.switch.v = 1
       THEN r.v.light.t = "int" /\ r.v.light.v \in -128..127
       ELSE r.v.light.t = "bytes" /\ Len(r.v.light.v) = 11
ToggleWidth(r) == IF r.v.switch.v = 1 THEN 1 ELSE 11
ToggleBytes(r) ==
    <<r.v.switch.v>> \o (IF r.v.switch.v = 1 THEN <<r.v.light.v % 256>> ELSE r.v.light.v)
\* C7: with a callback on the discriminant that replaces the codec of the
\* later field, whatever was packed or unpacked on the instance before: pack
\* of a record in the selected codec's domain writes the dependent field with
\* that codec's width, unpack of those bytes returns the record, and unpack
\* of any such encoding returns the record it encodes.
C7_VariantRoundTrip ==
    /\ (last.op = "pack" /\ ToggleDomain(last.arg)) =>
          /\ last.err = NoErr
          /\ last.out = VBytes(ToggleBytes(last.arg))
          /\ Len(last.out.v) = 1 + ToggleWidth(last.arg)
          /\ Call(World, "unpack", last.out).err = NoErr
          /\ Call(World, "unpack", last.out).out = last.arg
    /\ \A r \in Valid("toggle") :
          (last.op = "unpack" /\ last.arg = VBytes(ToggleBytes(r))) =>
              /\ last.err = NoErr
              /\ last.out = r
C7_OtherVariantBefore ==
    /\ schema = "toggle" /\ calls = 2
    /\ fresh[Root]._control # heap[Root]._control
    /\ last.op = "unpack" /\ last.err = NoErr
    /\ last.out = sw(1, VInt(-55))
    /\ heap[heap[Root]._control[2].val].parser = Int8(TRUE)

\* Whether candidate id of a ListyParser accepts an element.
Accepts(h, id, v) ==
    IF h[id].cls = "PH" THEN InDomain(h[id].parser, v) ELSE ToggleDomain(v)
AcceptedBySome(h, l) ==
    /\ l.t = "list"
    /\ \A i \in 1..Len(l.v) :
           \E j \in 1..Len(h[Root].parsers) : Accepts(h, h[Root].parsers[j], l.v[i])
AcceptedByFirst(h, l) ==
    /\ l.t = "list"
    /\ \A i \in 1..Len(l.v) : Accepts(h, h[Root].parsers[1], l.v[i])
RoundTrips ==
    /\ last.err = NoErr
    /\ Call(World, "unpack", last.out).err = NoErr
    /\ Call(World, "unpack", last.out).out = last.arg
    /\ Call(Fresh, "unpack", last.out).err = NoErr
    /\ Call(Fresh, "unpack", last.out).out = last.arg
\* C8, as stated: for every list whose elements are each accepted by some
\* candidate (here of a ListyParser without terminator), unpack of pack of
\* the list returns the list.
C8_AnyCandidate ==
    (last.op = "pack" /\ fresh[Root].terminant = 0 /\ AcceptedBySome(fresh, last.arg)) =>
        RoundTrips
\* C8, amended: for a ListyParser without terminator and every list whose
\* elements are each accepted by the first candidate, unpack of pack of the
\* list returns the list.
C8_FirstCandidate ==
    (last.op = "pack" /\ fresh[Root].terminant = 0 /\ AcceptedByFirst(fresh, last.arg)) =>
        RoundTrips
C8_PackedTwo ==
    /\ schema = "listy_u8_u16" /\ last.op = "pack"
    /\ last.arg = VList(<<VInt(1), VInt(1)>>) /\ last.out = VBytes(<<1, 1>>)

\* C9: when unpack of a ListyParser reaches the end of the input and no
\* terminator matched, it raises the unterminated-sequence ParseError if a
\* terminator is declared and required, and otherwise returns the elements.
C9_Termination ==
    (schema \in {"listy_u8", "listy_term", "listy_term_opt"}
       /\ last.op = "unpack" /\ 255 \notin Range(last.arg.v)) =>
        IF fresh[Root].terminant # 0 /\ fresh[Root].require_term
        THEN last.err = ParseError("eof")
        ELSE /\ last.err = NoErr
             /\ last.out.t = "list"
             /\ Len(last.out.v) = Len(last.arg.v)
             /\ \A i \in 1..Len(last.arg.v) : last.out.v[i] = VInt(last.arg.v[i])

\* C10: every pack or unpack call on a schema instance returns, or raises,
\* what the same call does on a freshly built identical schema.
C10_SameAsFresh ==
    (last.op \in {"pack", "unpack"}) =>
        /\ last.err = Call(Fresh, last.op, last.arg).err
        /\ last.out = Call(Fresh, last.op, last.arg).out

\* The child Fields of the root Composite.
Children(h) == {h[Root]._control[i].val : i \in 1..Len(h[Root]._control)}
\* C11: a pack or unpack call on a Composite that returns leaves every child
\* Field's offset and declared length as they were before the call.
C11_FieldsRestored ==
    [][(calls' = calls + 1 /\ last'.err = NoErr) =>
          \A f \in Children(heap) :
              /\ heap'[f]._offset = heap[f]._offset
              /\ heap'[f]._length = heap[f]._length]_vars

\* The objects of a heap that are Fields (ParseHelper, SmartyParser or
\* ListyParser instances).
Fields(h) == {i \in 1..Len(h) : h[i].cls # "free"}
\* C12: a pack or unpack call that raises leaves every Field's offset and
\* declared length as they were before the call.
C12_RolledBack ==
    [][(calls' = calls + 1 /\ last'.err # NoErr) =>
          \A f \in Fields(heap) \cap Fields(heap') :
              /\ heap'[f]._offset = heap[f]._offset
              /\ heap'[f]._length = heap[f]._length]_vars

\* What a callback slot passes on and which call it makes, in the words of
\* the specification: no function, or an observing function, passes the input
\* on; a replacing function passes on what it returns.
Returned(func, input) ==
    IF func.name = "inc" THEN VInt(input.v + 1)
    ELSE IF func.name = "rev" THEN VBytes(Reverse(input.v))
    ELSE IF input.t = "rec" THEN cx(VInt(513)) ELSE VList(<<VInt(7)>>)
Passes(slot, input) ==
    IF slot.func # NOOP /\ slot.modify THEN Returned(slot.func, input) ELSE input
Called(slot, input) ==
    IF slot.func = NOOP THEN <<>> ELSE <<<<slot.func.name, input>>>>
\* One pack or unpack call on the Field of schema cb against that reading.
C13_Step ==
    (schema = "cb" /\ calls' = calls + 1) =>
          LET slot == heap[CbField].cb
              seen == Call(World, last'.op, last'.arg).w.seen
          IN  /\ (last'.op = "pack" /\ last'.arg \in Valid("cb")) =>
                    LET v == last'.arg.v.x
                        c == Parser_pack(Int16(FALSE), Passes(slot.prepack, v))
                    IN  IF c.err # NoErr
                        THEN last'.err = c.err /\ seen = Called(slot.prepack, v)
                        ELSE /\ last'.err = NoErr
                             /\ last'.out = Passes(slot.postpack, c.val)
                             /\ seen = Called(slot.prepack, v) \o Called(slot.postpack, c.val)
              /\ (last'.op = "unpack" /\ Len(last'.arg.v) = 2) =>
                    LET b == last'.arg
                        c == Parser_unpack(Int16(FALSE), Passes(slot.preunpack, b).v)
                    IN  /\ last'.err = NoErr
                        /\ last'.out = cx(Passes(slot.postunpack, c.val))
                        /\ seen = Called(slot.preunpack, b) \o Called(slot.postunpack, c.val)
\* C13: Field.pack hands the value to pre-encode, what that passes on to the
\* codec, and the codec's bytes to post-encode; Field.unpack hands the raw
\* slice to pre-decode, what that passes on to the codec, and the codec's
\* value to post-decode; an observing slot and a slot with no function pass
\* their input on unchanged, a replacing slot passes on its function's return
\* value, and every slot with a function calls it once, in that order.
C13_Pipeline == [][C13_Step]_vars

\* C14: registering a function on a slot that already holds one replaces the
\* function, and the slot's mode stays as it was unless the registration
\* passes modify; both for register_callback and for the property setters.
C14_ModeKept ==
    [][(last'.op = "register" /\ last'.arg.v.func # NOOP
          /\ heap[CbField].cb[last'.arg.v.call_on].func # NOOP) =>
          LET a == last'.arg.v
              before == heap[CbField].cb[a.call_on]
              after == heap'[CbField].cb[a.call_on]
          IN  /\ after.func = a.func
              /\ after.modify = IF a.modify = None THEN before.modify ELSE Val(a.modify)]_vars

\* The field names that take part in a length-link of the schema.
TakingPart(h) ==
    Names(h[Root]._defer_eval0) \cup {h[Root]._defer_eval0[i].val : i \in 1..Len(h[Root]._defer_eval0)}
\* C15: link_length naming a field that already takes part in a length-link
\* raises, and leaves the schema (callbacks, exclusions, registry) as it was.
C15_RelinkRejected ==
    [][(last'.op = "link"
          /\ \E i \in 1..2 : last'.arg.v[i] \in TakingPart(heap)) =>
          /\ last'.err # NoErr
          /\ heap' = heap]_vars

\* The lengths known when a Field packs value v: the declared one, the
\* codec's fixed one, and the length of the bytes the codec produces.
InCodecType(parser, v) ==
    IF parser.k = "Struct" THEN v.t = "int" /\ IntDomain(parser, v.v) ELSE v.t = "bytes"
Produced(parser, v) == IF parser.k = "Struct" THEN Val(parser.length) ELSE Len(v.v)
Known(o, v) == {o._length, o.parser.length, Some(Produced(o.parser, v))} \ {None}
C16_Step ==
    (schema = "field" /\ last'.op = "pack" /\ InCodecType(heap[Root].parser, last'.arg.v[1])) =>
        IF Cardinality(Known(heap[Root], last'.arg.v[1])) > 1
        THEN /\ IsParseError(last'.err)
             /\ last'.out = last'.arg.v[2]
        ELSE /\ last'.err = NoErr
             /\ heap'[Root]._length \in Known(heap[Root], last'.arg.v[1])
\* C16: on Field.pack, when two of the declared length, the codec's fixed
\* length and the length of the produced bytes are known and differ (lengths
\* from 0 on, a declared 0 included), the call raises a ParseError and the
\* destination is as it was; when all known lengths agree, the call succeeds
\* and the Field's length is that common value.
C16_EncodeLengths == [][C16_Step]_vars

C17_Step ==
    (schema = "field" /\ last'.op = "unpack") =>
        \A n \in {heap[Root]._length, heap[Root].parser.length} \ {None} :
            Val(n) > Len(last'.arg.v) - heap[Root]._offset => last'.err # NoErr
\* C17: Field.unpack raises when the Field's length (declared, injected, or
\* fixed by the codec) is larger than the number of bytes the buffer holds
\* from the Field's offset: no value comes from a shorter slice.
C17_DecodeShort == [][C17_Step]_vars

\* The field loop of SmartyParser.pack on the root, stopped after its first k
\* fields: the loop run on the schema cut to those fields.  The buffer is
\* bytearray number Len(w.bufs) + 1.
AfterFields(w, obj, k) ==
    SmartyParser_pack_fields(
        bytearray([w EXCEPT !.heap[Root]._control = SubSeq(@, 1, k)]), Root,
        SetAll(obj, w.heap[Root]._exclude_from_obj, VNone), Len(w.bufs) + 1, 0, 1)
Packed(w, obj, k) == AfterFields(w, obj, k).w.bufs[Len(w.bufs) + 1]
\* The link of length field len_name to data field dat_name, on pack of obj:
\* reaching the length field appends its length in zero bytes and moves the
\* cursor by as much; once the data field is through, and before the next
\* field, the reserved range holds the length and every other byte is as the
\* data field left it.
DeferredWrite(w, obj, len_name, dat_name) ==
    LET control == w.heap[Root]._control
        i == IndexOf(control, len_name)
        j == IndexOf(control, dat_name)
        codec == w.heap[control[i].val].parser
        width == Val(codec.length)
        before == AfterFields(w, obj, i - 1)
        reserved == Slice(before.val.seeker, Some(before.val.seeker + width))
        data == obj.v[dat_name].v
    IN  /\ before.err = NoErr =>
              /\ AfterFields(w, obj, i).err = NoErr
              /\ AfterFields(w, obj, i).val.seeker = before.val.seeker + width
              /\ Packed(w, obj, i) = Packed(w, obj, i - 1) \o Zeros(width)
        /\ AfterFields(w, obj, j - 1).err = NoErr =>
              /\ AfterFields(w, obj, j).err = NoErr
              /\ Packed(w, obj, j) =
                     SetSlice(Packed(w, obj, j - 1) \o data, reserved,
                              StructBytes(codec, Len(data)))
\* C18: on every pack of a record of the schema, every length-link reserves
\* and later fills its length field as DeferredWrite says.
C18_DeferredWrite ==
    [][(calls' = calls + 1 /\ last'.op = "pack"
          /\ Strip(last'.arg, LinkedLengths) \in Valid(schema)) =>
          \A l \in Range(heap[Root]._defer_eval0) :
              DeferredWrite(World, last'.arg, l.name, l.val)]_vars

\* The chain is set up: a holds the length of b and b the length of c, the
\* link of c to b being the last link_length call that named b.
ChainLinked(h) ==
    /\ schema = "chain"
    /\ Names(h[Root]._defer_eval0) = {"a", "b"}
    /\ Get(h[Root]._defer_eval0, "a") = "b"
    /\ Get(h[Root]._defer_eval0, "b") = "c"
    /\ h[Get(h[Root]._control, "b")].cb.prepack.func.name = "prepack_len"
\* pack of obj on the chain: a and b are reserved as zero bytes and stay so
\* until c is written; once c is through, and before tail is reached, b holds
\* the byte length of c and a the byte length of b; pack returns those bytes
\* and tail.
ChainWritten(w, obj, err, out) ==
    LET control == w.heap[Root]._control
        a == w.heap[Get(control, "a")].parser
        b == w.heap[Get(control, "b")].parser
        c == obj.v.c.v
        head == StructBytes(a, Val(b.length)) \o StructBytes(b, Len(c))
    IN  /\ AfterFields(w, obj, 2).err = NoErr
        /\ Packed(w, obj, 2) = Zeros(Len(head))
        /\ AfterFields(w, obj, 3).err = NoErr
        /\ Packed(w, obj, 3) = head \o c
        /\ err = NoErr
        /\ out = VBytes(head \o c \o <<obj.v.tail.v>>)
\* C19: with a, b, c declared in that order and link_length(b, a) then
\* link_length(c, b), every pack of a record writes c, then b := length of c
\* and a := length of b, before the next field and before pack returns; no
\* reserved range is left as zero padding.
C19_Chain ==
    [][(calls' = calls + 1 /\ last'.op = "pack" /\ ChainLinked(heap)
          /\ last'.arg \in Valid("chain")) =>
          ChainWritten(World, last'.arg, last'.err, last'.out)]_vars

\* The ListyParsers whose candidates are Fields.
ListyOfFields ==
    schema \in {"listy_u8", "listy_u8_u16", "listy_u16_u8", "listy_term", "listy_term_opt"}
\* A Field whose declared length, if any, is its codec's fixed length; any
\* other raises a parse error on every encode and decode.
Sound(h, id) ==
    h[id]._length = None \/ h[id].parser.length = None
        \/ h[id]._length = h[id].parser.length
\* The bytes the Field id gets at cursor position p, whether its codec decodes
\* them (the Field is sound, all its bytes are there, and a verifying Literal
\* finds its content), and to what.
Window(h, id, data, p) ==
    SubSeq(data, p + 1, Min(Len(data), p + Val(h[id].parser.length)))
DecodesAt(h, id, data, p) ==
    /\ Sound(h, id)
    /\ Len(Window(h, id, data, p)) = Val(h[id].parser.length)
    /\ h[id].parser.k = "Literal" => Window(h, id, data, p) = h[id].parser.content
ValueAt(h, id, data, p) ==
    IF h[id].parser.k = "Literal" THEN VBytes(Window(h, id, data, p))
    ELSE VInt(BigEndianValue(Window(h, id, data, p), 0))
\* The terminator, if declared, then the candidates in declared order.
TryOrder(h) ==
    IF h[Root].terminant # 0 THEN <<h[Root].terminant>> \o h[Root].parsers
    ELSE h[Root].parsers
\* First match wins, from cursor position p up to the end point: the values
\* committed, and how the walk ended (at the end point, at a terminator, or
\* at a position nothing decodes).
RECURSIVE FirstMatch(_, _, _, _, _)
FirstMatch(h, data, p, end, out) ==
    IF p >= end THEN [out |-> out, ended |-> "eof"] ELSE
    LET order == TryOrder(h)
        ok == {i \in 1..Len(order) : DecodesAt(h, order[i], data, p)}
    IN  IF ok = {} THEN [out |-> out, ended |-> "none"] ELSE
    LET first == order[CHOOSE i \in ok : \A j \in ok : i <= j]
    IN  IF first = h[Root].terminant THEN [out |-> out, ended |-> "terminator"]
        ELSE FirstMatch(h, data, p + Val(h[first].parser.length), end,
                        Append(out, ValueAt(h, first, data, p)))
\* The end point the loop of unpack takes for data.
EndPoint(h, data) == Val(PyOr(h[Root]._length, Some(Len(data))))
C20_Step ==
    (calls' = calls + 1 /\ last'.op = "unpack" /\ ListyOfFields) =>
        LET data == last'.arg.v
            ref == FirstMatch(fresh, data, 0, EndPoint(heap, data), <<>>)
        IN  /\ ref.ended = "terminator" => last'.err = NoErr
            /\ ref.ended = "none" => IsParseError(last'.err)
            /\ last'.err = NoErr => last'.out = VList(ref.out)
ListyCandidates ==
    schema \in {"listy_u8", "listy_u8_u16", "listy_u16_u8", "listy_term", "listy_decl"}
BigEndian(n, w) == [i \in 1..w |-> (n \div (256 ^ (w - i))) % 256]
\* First match wins on encode, from element i on: the bytes written, and how
\* the walk ended (after the last element, or at an element no candidate
\* encodes).  A candidate that does not encode an element writes nothing.
RECURSIVE EncodeFirst(_, _, _, _)
EncodeFirst(h, list, i, out) ==
    IF i > Len(list) THEN [out |-> out, ended |-> "eof"] ELSE
    LET order == h[Root].parsers
        ok == {j \in 1..Len(order) :
                  Sound(h, order[j]) /\ InDomain(h[order[j]].parser, list[i])}
    IN  IF ok = {} THEN [out |-> out, ended |-> "none"] ELSE
    LET first == order[CHOOSE j \in ok : \A k \in ok : j <= k]
    IN  EncodeFirst(h, list, i + 1,
                    out \o BigEndian(list[i].v, Val(h[first].parser.length)))
C21_Step ==
    (calls' = calls + 1 /\ ListyCandidates) =>
        IF last'.op = "pack"
        THEN LET ref == EncodeFirst(fresh, last'.arg.v, 1, <<>>)
             IN  IF ref.ended = "none" THEN last'.err = ParseError("nomatch")
                 ELSE /\ fresh[Root].terminant = 0 => last'.err = NoErr
                      /\ last'.err = NoErr =>
                             /\ Len(last'.out.v) >= Len(ref.out)
                             /\ SubSeq(last'.out.v, 1, Len(ref.out)) = ref.out
        ELSE LET data == last'.arg.v
                 ref == FirstMatch(fresh, data, 0, EndPoint(heap, data), <<>>)
             IN  IF ref.ended = "none" THEN last'.err = ParseError("nomatch")
                 ELSE /\ last'.err \in {NoErr, ParseError("eof")}
                      /\ last'.err = NoErr => last'.out = VList(ref.out)
\* C21: in pack and unpack of a ListyParser a candidate that raises a parse
\* error writes no byte, appends no element and does not move the cursor, and
\* its error does not reach the caller while a later candidate succeeds; when
\* no candidate succeeds for an element or at a position the call raises the
\* no-match ParseError.
C21_CandidateFailure == [][C21_Step]_vars

\* C22: pack of a list on a ListyParser with a terminator returns the bytes of
\* the committed elements followed by the terminator's bytes, and unpack of
\* those bytes returns the elements.
C22_Terminated ==
    (schema \in {"listy_term", "listy_term_opt"} /\ last.op = "pack"
       /\ AcceptedByFirst(fresh, last.arg)) =>
        LET terminator == fresh[fresh[Root].terminant].parser.content
            elements == EncodeFirst(fresh, last.arg.v, 1, <<>>).out
        IN  /\ last.err = NoErr
            /\ last.out = VBytes(elements \o terminator)
            /\ Call(Fresh, "unpack", last.out).err = NoErr
            /\ Call(Fresh, "unpack", last.out).out = last.arg

\* C23: unpack of a buffer on a ListyParser returns, or raises, what it does
\* on a freshly built one, whatever pack and unpack calls came before it.
C23_ListStateless ==
    (ListyOfFields /\ last.op = "unpack") =>
        /\ last.err = Call(Fresh, "unpack", last.arg).err
        /\ last.out = Call(Fresh, "unpack", last.arg).out

\* C24: on the freshly built Composite whose last field is open-ended, unpack
\* of a buffer that holds the fields before it gives the last field every
\* byte from the cursor to the end of the buffer and returns the record; pack
\* returns the fields' bytes one after the other.
C24_OpenEnded ==
    (schema = "trail" /\ calls = 1) =>
        /\ (last.op = "unpack" /\ last.arg.v # <<>>) =>
               /\ last.err = NoErr
               /\ last.out = tr(Head(last.arg.v), Tail(last.arg.v))
        /\ (last.op = "pack" /\ last.arg \in Valid("trail")) =>
               /\ last.err = NoErr
               /\ last.out = VBytes(<<last.arg.v.n.v>> \o last.arg.v.rest.v)

\* What the children of the root encode a record or a list into, and decode
\* bytes into: schema cb has one unsigned 16-bit field x, listy_u8 unsigned
\* 8-bit elements.
ChildrenEncode(v) ==
    IF v.t = "rec" THEN BigEndian(v.v.x.v, 2)
    ELSE [i \in 1..Len(v.v) |-> v.v[i].v]
ChildrenDecode(b) ==
    IF schema = "cb" THEN cx(VInt(BigEndianValue(b, 0)))
    ELSE VList([i \in 1..Len(b) |-> VInt(b[i])])
\* The first pack or unpack call on a root with callbacks, against the reading
\* of the specification.
C25_Step ==
    (schema \in {"cb", "listy_u8"} /\ calls = 0 /\ calls' = 1) =>
        LET slot == heap[Root].cb
        IN  /\ (last'.op = "pack" /\ last'.arg \in Valid(schema)) =>
                  /\ last'.err = NoErr
                  /\ last'.out =
                         Passes(slot.postpack,
                                VBytes(ChildrenEncode(Passes(slot.prepack, last'.arg))))
            /\ (last'.op = "unpack" /\ (schema = "cb" => Len(last'.arg.v) = 2)) =>
                  /\ last'.err = NoErr
                  /\ last'.out =
                         Passes(slot.postunpack,
                                ChildrenDecode(Passes(slot.preunpack, last'.arg).v))
\* C25: the callback slots of a SmartyParser and of a ListyParser work as
\* those of a Field: a replacing pre-decode slot has the children decoded from
\* the bytes it returns, and a replacing pre-encode, post-encode or
\* post-decode slot passes its return value on to the next stage or to the
\* caller; an observing slot passes its input on.
C25_RootSlots == [][C25_Step]_vars

\* What the call returns or raises when it is the only call on the instance.
Alone(c) == Call(Fresh, c.op, c.arg)
SameAsAlone(c) == c.err = Alone(c).err /\ c.out = Alone(c).out
\* C26: two pack or unpack calls on one SmartyParser, each of which returns
\* its own result when it runs alone or when one runs after the other, can be
\* interleaved pass by pass of the field loop so that a call returns another
\* result: a finished call differs from its result alone only if a step of
\* the other call fell between its steps.
C26_OnlyInterleaved ==
    \A t \in DOMAIN running :
        (running[t].done /\ ~running[t].overlapped) => SameAsAlone(running[t])
\* Both calls have run to completion and one of them returned another result
\* than alone.
C26_Differs ==
    /\ running # <<>>
    /\ \A t \in DOMAIN running : running[t].done
    /\ \E t \in DOMAIN running : ~SameAsAlone(running[t])

\* The thunks the deferred-call table of the SmartyParser holds.
Thunks(h) ==
    UNION {{<<h[Root]._defer_eval1[j].name, k>> : k \in 1..Len(h[Root]._defer_eval1[j].val)} :
               j \in 1..Len(h[Root]._defer_eval1)}
\* C27: each thunk of the deferred-call table runs exactly once: when a pack
\* call has returned or raised, the table holds no thunk, so the next pack
\* runs only the thunks it registers itself.
C27_ThunksOnce == last.op = "pack" => Thunks(heap) = {}

\* C28: unpack of a ListyParser ends on every buffer, returning or raising,
\* also over a candidate that takes no byte.
C28_Terminates == last.op = "unpack" => last.err # Hang

\* The cursor of the field loop of pack(obj) after its first k fields, and
\* the positions of the bytearray that field k took.
Cursor(w, obj, k) == AfterFields(w, obj, k).val.seeker
Taken(w, obj, k) == (Cursor(w, obj, k - 1) + 1)..Cursor(w, obj, k)
\* What the child writes when it packs value into an empty bytearray of its
\* own, on the schema as built.
OnItsOwn(child, value) ==
    LET r == Pack(bytearray(Fresh), child, value, Some(1))
    IN  IF r.err = NoErr THEN <<r.w.bufs[1]>> ELSE <<>>
\* pack(obj) lays the fields out one after the other: as far as the loop
\* gets, the bytearray ends at the cursor, a field's pass changes no byte
\* before its own except in the length fields of length-links, a field that
\* is no such length field leaves there what it writes on its own, and such a
\* length field holds in the end the number of bytes its data field took.
Contiguous(w, obj) ==
    LET control == w.heap[Root]._control
        links == w.heap[Root]._defer_eval0
        n == Len(control)
        Reached(k) == AfterFields(w, obj, k).err = NoErr
        Reserved(k) == UNION {Taken(w, obj, i) : i \in {i \in 1..k : Has(links, control[i].name)}}
    IN  /\ \A k \in 0..n : Reached(k) => Len(Packed(w, obj, k)) = Cursor(w, obj, k)
        /\ \A k \in 1..n : Reached(k) =>
              /\ \A p \in 1..Cursor(w, obj, k - 1) :
                     Packed(w, obj, k)[p] # Packed(w, obj, k - 1)[p] => p \in Reserved(k - 1)
              /\ ~Has(links, control[k].name) =>
                     <<SubSeq(Packed(w, obj, k), Cursor(w, obj, k - 1) + 1, Cursor(w, obj, k))>>
                         = OnItsOwn(control[k].val, obj.v[control[k].name])
        /\ Reached(n) =>
              \A i \in 1..n : Has(links, control[i].name) =>
                  LET j == IndexOf(control, Get(links, control[i].name))
                      codec == w.heap[control[i].val].parser
                  IN  SubSeq(Packed(w, obj, n), Cursor(w, obj, i - 1) + 1, Cursor(w, obj, i))
                          = StructBytes(codec, Cardinality(Taken(w, obj, j)))
\* C29: every pack of a record of the schema that returns lays the fields out
\* contiguously and returns the bytearray the field loop built: the
\* concatenation of what the children write, in the order of declaration.
C29_Contiguous ==
    [][(calls' = calls + 1 /\ last'.op = "pack" /\ last'.err = NoErr) =>
          /\ Contiguous(World, last'.arg)
          /\ last'.out.v = Packed(World, last'.arg, Len(heap[Root]._control))]_vars
\* The SmartyParser between two Fields has packed a two-byte body on an
\* instance that had packed before.
C29_NestedPacked ==
    /\ schema = "nest" /\ calls = 2 /\ last.op = "pack" /\ last.err = NoErr
    /\ last.out.v = <<1, 2, 97, 98, 7>>

\* The caller's object as pack(obj) leaves it when it returns; obj itself
\* when the call raises.
CallersObject(w, obj) ==
    LET r == Pack(w, Root, obj, None)
    IN  IF r.err = NoErr THEN r.val.obj ELSE obj
\* C30: pack leaves the caller's record as it found it: when pack(record)
\* has returned, the record holds the keys and values it held before the
\* call, and no key of an excluded length field has been added.
C30_RecordKept ==
    [][(calls' = calls + 1 /\ last'.op = "pack" /\ last'.err = NoErr) =>
          PyEq(CallersObject(World, last'.arg), last'.arg)]_vars
====
